---- MODULE Spec2Model ----
(***************************************************************************)
(* Checkpoint ingestion pipeline of the indexer                            *)
(* (crates/sui-indexer/src/handlers/checkpoint_handler.rs).                *)
(*                                                                         *)
(* Three tasks spawned by CheckpointHandler::spawn share two bounded mpsc  *)
(* channels:                                                               *)
(*   T1  start_download_and_index   -> qCkpt, qEpoch, inline persist_epoch *)
(*   T2  start_checkpoint_commit    <- qCkpt  -> store.persist_checkpoint  *)
(*   T3  start_epoch_commit         <- qEpoch -> store.persist_epoch       *)
(* Every await point of the code that separates two accesses to shared     *)
(* state (channel, store) is a separate action.                            *)
(***************************************************************************)
EXTENDS Integers, Sequences, FiniteSets, TLC

\* ---------------------------------------------------------------- constants

CHECKPOINT_QUEUE_LIMIT == 10
EPOCH_QUEUE_LIMIT == 2
MULTI_GET_CHUNK_SIZE == 500

\* ------------------------------------------------------------------- bounds

\* Highest checkpoint sequence number the full node has produced.
MaxSeq == 3
\* The node ends an epoch every 1..MaxEpochLen checkpoints.
MaxEpochLen == 2
\* Faults injected in one behaviour: errors returned by the T1 body (each one
\* restarts it through the supervisor) and process crashes.
MaxFaults == 1

\* Longest next_epoch_committee list handed to index_checkpoint on its own.
MaxCommittee == 2

\* Most objects touched by the transactions whose effects are enumerated in full.
MaxObjects == 1

\* Most chunks of MULTI_GET_CHUNK_SIZE a fetched list is split into.
MaxChunks == 3

\* Most objects touched by the effects handed to the object-change functions.
MaxRefs == 3

\* Largest gas amount of the gas tests' cost tables (in place of the u64 amounts).
MaxGas == 5

\* ------------------------------------------------------------------ helpers

None == <<>>
Some(x) == <<x>>
IsSome(o) == o # <<>>
Unwrap(o) == o[1]

SetMax(S) == IF S = {} THEN -1 ELSE CHOOSE m \in S : \A x \in S : x <= m

VARIABLES
  tip,           \* node: the highest checkpoint sequence number it has produced
  epochLen,      \* node: an epoch ends at every checkpoint s with (s+1) % epochLen = 0
  skip,          \* config.skip_db_commit
  alive,         \* the spawned tasks that are running, each owning a handler clone
  held,          \* endpoint mutexes: the task holding the guard of each, or "none"
  ckptTable,     \* store: sequence numbers in the checkpoints table
  epochTable,    \* store: new_epoch.epoch of the persisted epoch records
  qCkpt,         \* checkpoint channel (capacity CHECKPOINT_QUEUE_LIMIT)
  qEpoch,        \* epoch channel (capacity EPOCH_QUEUE_LIMIT)
  pc1,           \* T1 position
  cursor,        \* T1 next_cursor_sequence_number
  lastFromDb,    \* T1 last_seq_from_db of the current run of the body
  waited,        \* T1 has slept in the availability loop for the current cursor
  pc2,           \* T2 position
  item2,         \* T2 indexed_checkpoint in hand
  retried2,      \* T2 has called persist_checkpoint again for item2 after an error
  pc3,           \* T3 position
  item3,         \* T3 indexed_epoch in hand
  retried3,      \* T3 has called persist_epoch again for item3 after an error
  faults,        \* faults injected so far
  \* ---- history (observations of the run, never read by the program)
  getCalls,      \* sequence numbers passed to get_checkpoint in the current run of T1
  firstGet,      \* the first of them
  eventsDone,    \* checkpoints whose events were handled (written by T1EventsOkNoted)
  lastSent,      \* sequence number of the last item sent on qCkpt since process start
  runSent,       \* sequence numbers sent on qCkpt by the current run of the T1 body, in order
  epochSent,     \* epoch records sent on qEpoch so far
  epochCalls,    \* persist_epoch calls made so far: the set of [by, rec]
  owed,          \* dequeued-but-uncommitted at a crash and not yet presented again
  fnIn,          \* data functions called on their own: the function and its input
  fnOut          \* data functions called on their own: what the call returned

vars == <<tip, epochLen, skip, alive, held, ckptTable, epochTable, qCkpt, qEpoch, pc1, cursor,
          lastFromDb, waited, pc2, item2, retried2, pc3, item3, retried3,
          faults, getCalls, firstGet, eventsDone, lastSent, runSent, epochSent,
          epochCalls, owed,
          fnIn, fnOut>>

storeVars == <<ckptTable, epochTable>>
envVars   == <<tip, epochLen, skip, alive, held, fnIn, fnOut>>
t1Vars    == <<pc1, cursor, lastFromDb, waited>>
t2Vars    == <<pc2, item2, retried2>>
t3Vars    == <<pc3, item3, retried3>>
getVars   == <<getCalls, firstGet, eventsDone>>

\* ------------------------------------------------------------ the full node

\* get_checkpoint(seq): the envelope the node serves for a produced checkpoint.
Envelope(seq) ==
  [sequence_number   |-> seq,
   epoch             |-> seq \div epochLen,
   timestamp_ms      |-> seq,
   end_of_epoch_data |-> IF (seq + 1) % epochLen = 0
                         THEN Some([next_epoch_committee |-> <<>>])
                         ELSE None]

\* system_state.epoch as read from the checkpoint's data: the epoch-change
\* transaction of an end-of-epoch checkpoint has already advanced it.
SystemStateEpoch(cp) ==
  IF IsSome(cp.end_of_epoch_data) THEN cp.epoch + 1 ELSE cp.epoch

\* download_checkpoint_data(seq), successful outcome.
CheckpointData(seq) ==
  [checkpoint |-> Envelope(seq), system_state_epoch |-> SystemStateEpoch(Envelope(seq))]

\* ----------------------------------------------------------- index_checkpoint

\* name.as_bytes().to_vec(): the bytes wrapped by an AuthorityName.
AsBytes(name) == name.pubkey

\* `*stake as i64`; the stakes of the model are below 2^63, where the cast keeps
\* the value.
AsI64(stake) == stake

\* The fold with a filter: a pair whose stake is 0 gets no stake entry.
RECURSIVE NextEpochCommittee_DropZeroStake(_, _)
NextEpochCommittee_DropZeroStake(committee, acc) ==
  IF committee = <<>> THEN acc
  ELSE NextEpochCommittee_DropZeroStake(Tail(committee),
         [names  |-> Append(acc.names, Some(AsBytes(Head(committee)[1]))),
          stakes |-> IF Head(committee)[2] = 0 THEN acc.stakes
                     ELSE Append(acc.stakes, Some(AsI64(Head(committee)[2])))])

\* The fold over end_of_epoch_data.next_epoch_committee: (names, stakes).
RECURSIVE NextEpochCommittee(_, _)
NextEpochCommittee(committee, acc) ==
  IF committee = <<>> THEN acc
  ELSE NextEpochCommittee(Tail(committee),
         [names  |-> Append(acc.names, Some(AsBytes(Head(committee)[1]))),
          stakes |-> Append(acc.stakes, Some(AsI64(Head(committee)[2])))])

\* The TemporaryEpochStore of the "very first epoch" branch.
GenesisEpoch(data) ==
  [last_epoch |-> None,
   new_epoch  |-> [epoch |-> 0, first_checkpoint_id |-> 0]]

\* The boundary record numbered by the checkpoint's own epoch.
BoundaryEpoch_FromCheckpointEpoch(data) ==
  LET checkpoint == data.checkpoint
      end_of_epoch_data == Unwrap(checkpoint.end_of_epoch_data)
      folded == NextEpochCommittee(end_of_epoch_data.next_epoch_committee,
                                   [names |-> <<>>, stakes |-> <<>>])
  IN [last_epoch |->
        Some([epoch |-> checkpoint.epoch - 1,
              last_checkpoint_id |-> Some(checkpoint.sequence_number),
              epoch_end_timestamp |-> Some(checkpoint.timestamp_ms),
              next_epoch_committee |-> folded.names,
              next_epoch_committee_stake |-> folded.stakes]),
      new_epoch |->
        [epoch |-> checkpoint.epoch,
         first_checkpoint_id |-> checkpoint.sequence_number + 1]]

\* The TemporaryEpochStore of the end_of_epoch_data branch.
BoundaryEpoch(data) ==
  LET checkpoint == data.checkpoint
      end_of_epoch_data == Unwrap(checkpoint.end_of_epoch_data)
      folded == NextEpochCommittee(end_of_epoch_data.next_epoch_committee,
                                   [names |-> <<>>, stakes |-> <<>>])
  IN [last_epoch |->
        Some([epoch |-> data.system_state_epoch - 1,
              last_checkpoint_id |-> Some(checkpoint.sequence_number),
              epoch_end_timestamp |-> Some(checkpoint.timestamp_ms),
              next_epoch_committee |-> folded.names,
              next_epoch_committee_stake |-> folded.stakes]),
      new_epoch |->
        [epoch |-> data.system_state_epoch,
         first_checkpoint_id |-> checkpoint.sequence_number + 1]]

\* epoch_index with the end_of_epoch_data test made first.
IndexEpoch_BoundaryFirst(data) ==
  LET checkpoint == data.checkpoint IN
  IF IsSome(checkpoint.end_of_epoch_data) THEN Some(BoundaryEpoch(data))
  ELSE IF checkpoint.epoch = 0 /\ checkpoint.sequence_number = 0
  THEN Some(GenesisEpoch(data))
  ELSE None

\* epoch_index whose last branch yields a record too.
IndexEpoch_NoMidEpoch(data) ==
  LET checkpoint == data.checkpoint IN
  IF checkpoint.epoch = 0 /\ checkpoint.sequence_number = 0
  THEN Some(GenesisEpoch(data))
  ELSE IF IsSome(checkpoint.end_of_epoch_data) THEN Some(BoundaryEpoch(data))
  ELSE Some(GenesisEpoch(data))

\* The epoch_index part of index_checkpoint.
IndexEpoch(data) ==
  LET checkpoint == data.checkpoint IN
  IF checkpoint.epoch = 0 /\ checkpoint.sequence_number = 0
  THEN Some(GenesisEpoch(data))
  ELSE IF IsSome(checkpoint.end_of_epoch_data) THEN Some(BoundaryEpoch(data))
  ELSE None

\* index_checkpoint(data) = (TemporaryCheckpointStore, Option<TemporaryEpochStore>)
IndexCheckpoint(data) ==
  [indexed_checkpoint |-> [sequence_number |-> data.checkpoint.sequence_number],
   indexed_epoch      |-> IndexEpoch(data)]

\* What T1 holds between the download and the cursor increment.
Indexed == IndexCheckpoint(CheckpointData(cursor))

\* -------------------------------------------------------------------- store

\* get_latest_checkpoint_sequence_number(): -1 on an empty table.
LatestCheckpointSequenceNumber == SetMax(ckptTable)

\* The four channel endpoints of the handler, each an Arc<Mutex<..>>.
Endpoints ==
  {"checkpoint_sender", "checkpoint_receiver", "epoch_sender", "epoch_receiver"}

\* ---------------------------------------------------------------------- Init

\* The state after CheckpointHandler::new and spawn, on an empty store, facing
\* a node that has produced checkpoints 0..t.
InitWith(t) ==
  /\ tip = t
  /\ epochLen \in 1..MaxEpochLen
  /\ skip \in BOOLEAN
  /\ alive = {"T1", "T2", "T3"}
  /\ held = [endpoint \in Endpoints |-> "none"]
  /\ ckptTable = {}
  /\ epochTable = {}
  /\ qCkpt = <<>>
  /\ qEpoch = <<>>
  /\ pc1 = "start"
  /\ cursor = 0
  /\ lastFromDb = -1
  /\ waited = FALSE
  /\ pc2 = "recv"
  /\ item2 = None
  /\ retried2 = FALSE
  /\ pc3 = "recv"
  /\ item3 = None
  /\ retried3 = FALSE
  /\ faults = 0
  /\ getCalls = {}
  /\ firstGet = None
  /\ eventsDone = {}
  /\ lastSent = -1
  /\ runSent = <<>>
  /\ epochSent = {}
  /\ epochCalls = {}
  /\ owed = {}
  /\ fnIn = [fn |-> "none"]
  /\ fnOut = [fn |-> "none"]

Init == InitWith(MaxSeq)

\* ------------------------------------------- T1: start_download_and_index

\* The body returns Err(e): the supervisor loop of spawn takes over.
T1Fail ==
  /\ faults < MaxFaults
  /\ faults' = faults + 1
  /\ pc1' = "failed"
  /\ UNCHANGED <<cursor, lastFromDb, waited>>
  /\ UNCHANGED <<envVars, storeVars, qCkpt, qEpoch, t2Vars, t3Vars, getVars,
                 lastSent, runSent, epochSent, epochCalls, owed>>

\* A supervisor that gives up: the task ends with the error of its body.
T1Supervisor_Exit ==
  /\ pc1 = "failed"
  /\ pc1' = "exited"
  /\ UNCHANGED <<cursor, lastFromDb, waited>>
  /\ UNCHANGED <<envVars, storeVars, qCkpt, qEpoch, t2Vars, t3Vars, faults,
                 getVars, lastSent, runSent, epochSent, epochCalls, owed>>

\* spawn: sleep DOWNLOAD_RETRY_INTERVAL_IN_SECS, call the body again.
T1Supervisor ==
  /\ pc1 = "failed"
  /\ pc1' = "start"
  /\ UNCHANGED <<cursor, lastFromDb, waited>>
  /\ UNCHANGED <<envVars, storeVars, qCkpt, qEpoch, t2Vars, t3Vars, faults,
                 getVars, lastSent, runSent, epochSent, epochCalls, owed>>

\* Mutant of T1Start: the cursor is derived one too far.
T1Start_SkipOne ==
  /\ pc1 = "start"
  /\ lastFromDb' = LatestCheckpointSequenceNumber
  /\ cursor' = lastFromDb' + 2
  /\ waited' = FALSE
  /\ pc1' = "download"
  /\ getCalls' = {}
  /\ firstGet' = None
  /\ runSent' = <<>>
  /\ UNCHANGED eventsDone
  /\ UNCHANGED <<envVars, storeVars, qCkpt, qEpoch, t2Vars, t3Vars, faults,
                 lastSent, epochSent, epochCalls, owed>>

\* Mutant of T1Start: resumes at the last committed sequence number itself.
T1Start_ResumeAtLast ==
  /\ pc1 = "start"
  /\ lastFromDb' = LatestCheckpointSequenceNumber
  /\ cursor' = IF lastFromDb' < 0 THEN 0 ELSE lastFromDb'
  /\ waited' = FALSE
  /\ pc1' = "download"
  /\ getCalls' = {}
  /\ firstGet' = None
  /\ runSent' = <<>>
  /\ UNCHANGED eventsDone
  /\ UNCHANGED <<envVars, storeVars, qCkpt, qEpoch, t2Vars, t3Vars, faults,
                 lastSent, epochSent, epochCalls, owed>>

\* Mutant of T1Start: the body starts at the node's latest checkpoint.
T1Start_AtNodeTip ==
  /\ pc1 = "start"
  /\ lastFromDb' = LatestCheckpointSequenceNumber
  /\ cursor' = tip
  /\ waited' = FALSE
  /\ pc1' = "download"
  /\ getCalls' = {}
  /\ firstGet' = None
  /\ runSent' = <<>>
  /\ UNCHANGED eventsDone
  /\ UNCHANGED <<envVars, storeVars, qCkpt, qEpoch, t2Vars, t3Vars, faults,
                 lastSent, epochSent, epochCalls, owed>>

\* last_seq_from_db = get_latest_checkpoint_sequence_number()?;
\* next_cursor_sequence_number = last_seq_from_db + 1 (on the signed value).
T1Start ==
  /\ pc1 = "start"
  /\ lastFromDb' = LatestCheckpointSequenceNumber
  /\ cursor' = lastFromDb' + 1
  /\ waited' = FALSE
  /\ pc1' = "download"
  /\ getCalls' = {}
  /\ firstGet' = None
  /\ runSent' = <<>>
  /\ UNCHANGED eventsDone
  /\ UNCHANGED <<envVars, storeVars, qCkpt, qEpoch, t2Vars, t3Vars, faults,
                 lastSent, epochSent, epochCalls, owed>>

\* get_latest_checkpoint_sequence_number() fails: `?` returns the error.
T1StartErr ==
  /\ pc1 = "start"
  /\ T1Fail

\* The bookkeeping of one get_checkpoint(cursor) call.
NoteGet ==
  /\ getCalls' = getCalls \cup {cursor}
  /\ firstGet' = IF IsSome(firstGet) THEN firstGet ELSE Some(cursor)
  /\ UNCHANGED eventsDone

\* Mutant of T1GetCheckpointErr: the error is returned to the body's caller.
T1GetCheckpointErr_Bubbles ==
  /\ pc1 = "download"
  /\ waited' = TRUE
  /\ pc1' = "failed"
  /\ NoteGet
  /\ UNCHANGED <<cursor, lastFromDb>>
  /\ UNCHANGED <<envVars, storeVars, qCkpt, qEpoch, t2Vars, t3Vars, faults,
                 lastSent, runSent, epochSent, epochCalls, owed>>

\* download_checkpoint_data: get_checkpoint(seq) is an error (a future checkpoint
\* or any other RPC error); sleep 100 ms and call it again.
T1GetCheckpointErr ==
  /\ pc1 = "download"
  /\ waited' = TRUE
  /\ NoteGet
  /\ UNCHANGED <<pc1, cursor, lastFromDb>>
  /\ UNCHANGED <<envVars, storeVars, qCkpt, qEpoch, t2Vars, t3Vars, faults,
                 lastSent, runSent, epochSent, epochCalls, owed>>

\* download_checkpoint_data: get_checkpoint(seq) is Ok (the node has produced seq).
T1GetCheckpointOk ==
  /\ pc1 = "download"
  /\ cursor <= tip
  /\ pc1' = "fetch"
  /\ NoteGet
  /\ UNCHANGED <<cursor, lastFromDb, waited>>
  /\ UNCHANGED <<envVars, storeVars, qCkpt, qEpoch, t2Vars, t3Vars, faults,
                 lastSent, runSent, epochSent, epochCalls, owed>>

\* The transactions and the changed objects are fetched and index_checkpoint is Ok.
T1FetchIndexOk ==
  /\ pc1 = "fetch"
  /\ pc1' = "send_checkpoint"
  /\ UNCHANGED <<cursor, lastFromDb, waited>>
  /\ UNCHANGED <<envVars, storeVars, qCkpt, qEpoch, t2Vars, t3Vars, faults,
                 getVars, lastSent, runSent, epochSent, epochCalls, owed>>

\* T1FetchIndexErr with the error swallowed: the body goes on to the next
\* checkpoint.
T1FetchIndexErr_Skip ==
  /\ pc1 = "fetch"
  /\ faults < MaxFaults
  /\ faults' = faults + 1
  /\ pc1' = "download"
  /\ cursor' = cursor + 1
  /\ UNCHANGED <<lastFromDb, waited>>
  /\ UNCHANGED <<envVars, storeVars, qCkpt, qEpoch, t2Vars, t3Vars, getVars,
                 lastSent, runSent, epochSent, epochCalls, owed>>

\* multi_get_full_transactions, fetch_changed_objects or index_checkpoint fails.
T1FetchIndexErr ==
  /\ pc1 = "fetch"
  /\ T1Fail

\* Mutant of AfterSend: every epoch record is persisted inline.
AfterSend_AllInline ==
  IF ~IsSome(Indexed.indexed_epoch) THEN "events" ELSE "call_persist_epoch"

\* Where T1 goes once indexed_checkpoint is in the channel.
AfterSend ==
  LET e == Indexed.indexed_epoch IN
  IF ~IsSome(e) THEN "events"
  ELSE IF ~IsSome(Unwrap(e).last_epoch) THEN "call_persist_epoch"
  ELSE "send_epoch"

\* Mutant of T1SendCheckpoint: the channel takes one item more than its capacity.
T1SendCheckpoint_OffByOne ==
  /\ pc1 = "send_checkpoint"
  /\ Len(qCkpt) <= CHECKPOINT_QUEUE_LIMIT
  /\ qCkpt' = Append(qCkpt, Indexed.indexed_checkpoint)
  /\ lastSent' = Indexed.indexed_checkpoint.sequence_number
  /\ runSent' = Append(runSent, Indexed.indexed_checkpoint.sequence_number)
  /\ pc1' = AfterSend
  /\ UNCHANGED <<cursor, lastFromDb, waited>>
  /\ UNCHANGED <<envVars, storeVars, qEpoch, t2Vars, t3Vars, faults, getVars,
                 epochSent, epochCalls, owed>>

\* checkpoint_sender.send(indexed_checkpoint): waits while the channel is full.
T1SendCheckpoint ==
  /\ pc1 = "send_checkpoint"
  /\ Len(qCkpt) < CHECKPOINT_QUEUE_LIMIT
  /\ qCkpt' = Append(qCkpt, Indexed.indexed_checkpoint)
  /\ lastSent' = Indexed.indexed_checkpoint.sequence_number
  /\ runSent' = Append(runSent, Indexed.indexed_checkpoint.sequence_number)
  /\ pc1' = AfterSend
  /\ UNCHANGED <<cursor, lastFromDb, waited>>
  /\ UNCHANGED <<envVars, storeVars, qEpoch, t2Vars, t3Vars, faults, getVars,
                 epochSent, epochCalls, owed>>

\* epoch.last_epoch.is_none(): self.state.persist_epoch(&epoch) is called.
T1PersistEpochCall ==
  /\ pc1 = "call_persist_epoch"
  /\ pc1' = "persist_epoch"
  /\ epochCalls' = epochCalls \cup {[by |-> "T1", rec |-> Unwrap(Indexed.indexed_epoch)]}
  /\ UNCHANGED <<cursor, lastFromDb, waited>>
  /\ UNCHANGED <<envVars, storeVars, qCkpt, qEpoch, t2Vars, t3Vars, faults,
                 getVars, lastSent, runSent, epochSent, owed>>

\* The inline persist_epoch returns Ok.
T1PersistEpochOk ==
  /\ pc1 = "persist_epoch"
  /\ epochTable' = epochTable \cup {Unwrap(Indexed.indexed_epoch).new_epoch.epoch}
  /\ pc1' = "events"
  /\ UNCHANGED <<cursor, lastFromDb, waited>>
  /\ UNCHANGED <<envVars, ckptTable, qCkpt, qEpoch, t2Vars, t3Vars, faults,
                 getVars, lastSent, runSent, epochSent, epochCalls, owed>>

\* The inline persist_epoch returns Err: `?` returns it (no retry loop here).
T1PersistEpochErr ==
  /\ pc1 = "persist_epoch"
  /\ T1Fail

\* T1SendEpoch on a channel that makes room by dropping its oldest record.
T1SendEpoch_DropOldest ==
  /\ pc1 = "send_epoch"
  /\ qEpoch' = IF Len(qEpoch) < EPOCH_QUEUE_LIMIT
               THEN Append(qEpoch, Unwrap(Indexed.indexed_epoch))
               ELSE Append(Tail(qEpoch), Unwrap(Indexed.indexed_epoch))
  /\ epochSent' = epochSent \cup {Unwrap(Indexed.indexed_epoch)}
  /\ pc1' = "events"
  /\ UNCHANGED <<cursor, lastFromDb, waited>>
  /\ UNCHANGED <<envVars, storeVars, qCkpt, t2Vars, t3Vars, faults, getVars,
                 lastSent, runSent, epochCalls, owed>>

\* T1SendEpoch with try_send in place of send: a record offered to a full
\* channel is dropped and the body goes on.
T1SendEpoch_TrySend ==
  /\ pc1 = "send_epoch"
  /\ qEpoch' = IF Len(qEpoch) < EPOCH_QUEUE_LIMIT
               THEN Append(qEpoch, Unwrap(Indexed.indexed_epoch))
               ELSE qEpoch
  /\ epochSent' = IF Len(qEpoch) < EPOCH_QUEUE_LIMIT
                  THEN epochSent \cup {Unwrap(Indexed.indexed_epoch)}
                  ELSE epochSent
  /\ pc1' = "events"
  /\ UNCHANGED <<cursor, lastFromDb, waited>>
  /\ UNCHANGED <<envVars, storeVars, qCkpt, t2Vars, t3Vars, faults, getVars,
                 lastSent, runSent, epochCalls, owed>>

\* epoch_sender.send(epoch): waits while the channel is full.
T1SendEpoch ==
  /\ pc1 = "send_epoch"
  /\ Len(qEpoch) < EPOCH_QUEUE_LIMIT
  /\ qEpoch' = Append(qEpoch, Unwrap(Indexed.indexed_epoch))
  /\ epochSent' = epochSent \cup {Unwrap(Indexed.indexed_epoch)}
  /\ pc1' = "events"
  /\ UNCHANGED <<cursor, lastFromDb, waited>>
  /\ UNCHANGED <<envVars, storeVars, qCkpt, t2Vars, t3Vars, faults, getVars,
                 lastSent, runSent, epochCalls, owed>>

\* Mutant of T1EventsOk: the loop goes round without the cursor increment.
T1EventsOk_NoIncrement ==
  /\ pc1 = "events"
  /\ waited' = FALSE
  /\ pc1' = "download"
  /\ UNCHANGED <<cursor, lastFromDb, eventsDone>>
  /\ UNCHANGED <<envVars, storeVars, qCkpt, qEpoch, t2Vars, t3Vars, faults,
                 getCalls, firstGet, lastSent, runSent, epochSent, epochCalls, owed>>

\* process_events is Ok for every transaction; next_cursor_sequence_number += 1.
T1EventsOk ==
  /\ pc1 = "events"
  /\ cursor' = cursor + 1
  /\ waited' = FALSE
  /\ pc1' = "download"
  /\ UNCHANGED <<lastFromDb, eventsDone>>
  /\ UNCHANGED <<envVars, storeVars, qCkpt, qEpoch, t2Vars, t3Vars, faults,
                 getCalls, firstGet, lastSent, runSent, epochSent, epochCalls, owed>>

\* The same step, with the checkpoint whose events were handled written to the
\* history variable eventsDone.
T1EventsOkNoted ==
  /\ pc1 = "events"
  /\ cursor' = cursor + 1
  /\ waited' = FALSE
  /\ pc1' = "download"
  /\ eventsDone' = eventsDone \cup {cursor}
  /\ UNCHANGED lastFromDb
  /\ UNCHANGED <<envVars, storeVars, qCkpt, qEpoch, t2Vars, t3Vars, faults,
                 getCalls, firstGet, lastSent, runSent, epochSent, epochCalls, owed>>

\* process_events fails for a transaction: `?` returns the error.
T1EventsErr ==
  /\ pc1 = "events"
  /\ T1Fail

\* -------------------------------------------- T2: start_checkpoint_commit

\* T2Recv without the skip_db_commit test: every item goes to persist_checkpoint.
T2Recv_PersistAlways ==
  /\ pc2 = "recv"
  /\ qCkpt # <<>>
  /\ qCkpt' = Tail(qCkpt)
  /\ pc2' = "persist"
  /\ item2' = Some(Head(qCkpt))
  /\ retried2' = FALSE
  /\ owed' = owed \ {Head(qCkpt).sequence_number}
  /\ UNCHANGED <<envVars, storeVars, qEpoch, t1Vars, t3Vars, faults, getVars,
                 lastSent, runSent, epochSent, epochCalls>>

\* checkpoint_receiver.recv() yields an item; with skip_db_commit it is logged and
\* dropped, otherwise persist_checkpoint(&indexed_checkpoint) is called.
T2Recv ==
  /\ pc2 = "recv"
  /\ qCkpt # <<>>
  /\ qCkpt' = Tail(qCkpt)
  /\ IF skip
     THEN UNCHANGED <<pc2, item2, retried2, owed>>
     ELSE /\ pc2' = "persist"
          /\ item2' = Some(Head(qCkpt))
          /\ retried2' = FALSE
          /\ owed' = owed \ {Head(qCkpt).sequence_number}
  /\ UNCHANGED <<envVars, storeVars, qEpoch, t1Vars, t3Vars, faults, getVars,
                 lastSent, runSent, epochSent, epochCalls>>

\* persist_checkpoint returns Ok: the row is upserted, T2 loops to recv.
T2PersistOk ==
  /\ pc2 = "persist"
  /\ ckptTable' = ckptTable \cup {Unwrap(item2).sequence_number}
  /\ pc2' = "recv"
  /\ item2' = None
  /\ retried2' = FALSE
  /\ UNCHANGED <<envVars, epochTable, qCkpt, qEpoch, t1Vars, t3Vars, faults,
                 getVars, lastSent, runSent, epochSent, epochCalls, owed>>

\* Mutant of T2PersistErr: no retry, the popped checkpoint is dropped.
T2PersistErr_Drop ==
  /\ pc2 = "persist"
  /\ pc2' = "recv"
  /\ item2' = None
  /\ retried2' = FALSE
  /\ UNCHANGED <<envVars, storeVars, qCkpt, qEpoch, t1Vars, t3Vars, faults,
                 getVars, lastSent, runSent, epochSent, epochCalls, owed>>

\* persist_checkpoint returns Err: sleep DB_COMMIT_RETRY_INTERVAL_IN_MILLIS and
\* call it again with the same indexed_checkpoint.
T2PersistErr ==
  /\ pc2 = "persist"
  /\ retried2' = TRUE
  /\ UNCHANGED <<pc2, item2>>
  /\ UNCHANGED <<envVars, storeVars, qCkpt, qEpoch, t1Vars, t3Vars, faults,
                 getVars, lastSent, runSent, epochSent, epochCalls, owed>>

\* ------------------------------------------------- T3: start_epoch_commit

\* Mutant of T3Handle: persist_epoch is called for every record.
T3Handle_PersistAll(rec) ==
  /\ pc3' = "persist"
  /\ item3' = Some(rec)
  /\ epochCalls' = epochCalls \cup {[by |-> "T3", rec |-> rec]}

\* T3Handle with the skip_db_commit test of start_checkpoint_commit: with the
\* flag set the record is dropped.
T3Handle_SkipDbCommit(rec) ==
  IF IsSome(rec.last_epoch) /\ ~skip
  THEN /\ pc3' = "persist"
       /\ item3' = Some(rec)
       /\ epochCalls' = epochCalls \cup {[by |-> "T3", rec |-> rec]}
  ELSE UNCHANGED <<pc3, item3, epochCalls>>

\* What start_epoch_commit does with a received record: persist_epoch is called
\* when last_epoch.is_some(), nothing happens otherwise.
T3Handle(rec) ==
  IF IsSome(rec.last_epoch)
  THEN /\ pc3' = "persist"
       /\ item3' = Some(rec)
       /\ epochCalls' = epochCalls \cup {[by |-> "T3", rec |-> rec]}
  ELSE UNCHANGED <<pc3, item3, epochCalls>>

\* epoch_receiver.recv() yields a record.
T3Recv ==
  /\ pc3 = "recv"
  /\ qEpoch # <<>>
  /\ qEpoch' = Tail(qEpoch)
  /\ retried3' = FALSE
  /\ T3Handle(Head(qEpoch))
  /\ UNCHANGED <<envVars, storeVars, qCkpt, t1Vars, t2Vars, faults, getVars,
                 lastSent, runSent, epochSent, owed>>

\* T3PersistOk that waits until T2 has committed the last checkpoint of the
\* epoch the record closes.
T3PersistOk_AfterCheckpoint ==
  /\ pc3 = "persist"
  /\ Unwrap(Unwrap(Unwrap(item3).last_epoch).last_checkpoint_id) \in ckptTable
  /\ epochTable' = epochTable \cup {Unwrap(item3).new_epoch.epoch}
  /\ pc3' = "recv"
  /\ item3' = None
  /\ retried3' = FALSE
  /\ UNCHANGED <<envVars, ckptTable, qCkpt, qEpoch, t1Vars, t2Vars, faults,
                 getVars, lastSent, runSent, epochSent, epochCalls, owed>>

\* persist_epoch returns Ok.
T3PersistOk ==
  /\ pc3 = "persist"
  /\ epochTable' = epochTable \cup {Unwrap(item3).new_epoch.epoch}
  /\ pc3' = "recv"
  /\ item3' = None
  /\ retried3' = FALSE
  /\ UNCHANGED <<envVars, ckptTable, qCkpt, qEpoch, t1Vars, t2Vars, faults,
                 getVars, lastSent, runSent, epochSent, epochCalls, owed>>

\* persist_epoch returns Err: sleep, call it again with the same record.
T3PersistErr ==
  /\ pc3 = "persist"
  /\ retried3' = TRUE
  /\ UNCHANGED <<pc3, item3>>
  /\ UNCHANGED <<envVars, storeVars, qCkpt, qEpoch, t1Vars, t2Vars, faults,
                 getVars, lastSent, runSent, epochSent, epochCalls, owed>>

\* ------------------------------------------------------ the endpoint mutexes

\* The tasks' steps on the channels with the guards they take: every endpoint is
\* locked before it is used and its guard dropped after the call has returned.

\* What these steps leave alone of the environment.
nodeVars == <<tip, epochLen, skip, alive, fnIn, fnOut>>

\* endpoint.lock().await by `task`: waits while another guard of the mutex lives.
Lock(task, endpoint) ==
  /\ held[endpoint] = "none"
  /\ held' = [held EXCEPT ![endpoint] = task]

\* drop(guard)
Drop(task, endpoint) ==
  /\ held[endpoint] = task
  /\ held' = [held EXCEPT ![endpoint] = "none"]

\* let checkpoint_sender_guard = self.checkpoint_sender.lock().await;
T1LockCheckpointSender ==
  /\ pc1 = "send_checkpoint"
  /\ Lock("T1", "checkpoint_sender")
  /\ UNCHANGED <<nodeVars, storeVars, qCkpt, qEpoch, t1Vars, t2Vars, t3Vars, faults,
                 getVars, lastSent, runSent, epochSent, epochCalls, owed>>

\* T1SendCheckpointHeld without drop(checkpoint_sender_guard).
T1SendCheckpointHeld_NoDrop ==
  /\ pc1 = "send_checkpoint"
  /\ held["checkpoint_sender"] = "T1"
  /\ Len(qCkpt) < CHECKPOINT_QUEUE_LIMIT
  /\ qCkpt' = Append(qCkpt, Indexed.indexed_checkpoint)
  /\ lastSent' = Indexed.indexed_checkpoint.sequence_number
  /\ runSent' = Append(runSent, Indexed.indexed_checkpoint.sequence_number)
  /\ pc1' = AfterSend
  /\ UNCHANGED <<cursor, lastFromDb, waited, held>>
  /\ UNCHANGED <<nodeVars, storeVars, qEpoch, t2Vars, t3Vars, faults, getVars,
                 epochSent, epochCalls, owed>>

\* checkpoint_sender_guard.send(indexed_checkpoint).await, waiting while the
\* channel is full with the guard held; drop(checkpoint_sender_guard).
T1SendCheckpointHeld ==
  /\ pc1 = "send_checkpoint"
  /\ Len(qCkpt) < CHECKPOINT_QUEUE_LIMIT
  /\ Drop("T1", "checkpoint_sender")
  /\ qCkpt' = Append(qCkpt, Indexed.indexed_checkpoint)
  /\ lastSent' = Indexed.indexed_checkpoint.sequence_number
  /\ runSent' = Append(runSent, Indexed.indexed_checkpoint.sequence_number)
  /\ pc1' = AfterSend
  /\ UNCHANGED <<cursor, lastFromDb, waited>>
  /\ UNCHANGED <<nodeVars, storeVars, qEpoch, t2Vars, t3Vars, faults, getVars,
                 epochSent, epochCalls, owed>>

\* let epoch_sender_guard = self.epoch_sender.lock().await;
T1LockEpochSender ==
  /\ pc1 = "send_epoch"
  /\ Lock("T1", "epoch_sender")
  /\ UNCHANGED <<nodeVars, storeVars, qCkpt, qEpoch, t1Vars, t2Vars, t3Vars, faults,
                 getVars, lastSent, runSent, epochSent, epochCalls, owed>>

\* epoch_sender_guard.send(epoch).await, waiting while the channel is full with
\* the guard held; drop(epoch_sender_guard).
T1SendEpochHeld ==
  /\ pc1 = "send_epoch"
  /\ Len(qEpoch) < EPOCH_QUEUE_LIMIT
  /\ Drop("T1", "epoch_sender")
  /\ qEpoch' = Append(qEpoch, Unwrap(Indexed.indexed_epoch))
  /\ epochSent' = epochSent \cup {Unwrap(Indexed.indexed_epoch)}
  /\ pc1' = "events"
  /\ UNCHANGED <<cursor, lastFromDb, waited>>
  /\ UNCHANGED <<nodeVars, storeVars, qCkpt, t2Vars, t3Vars, faults, getVars,
                 lastSent, runSent, epochCalls, owed>>

\* let mut checkpoint_receiver_guard = self.checkpoint_receiver.lock().await;
T2LockCheckpointReceiver ==
  /\ pc2 = "recv"
  /\ Lock("T2", "checkpoint_receiver")
  /\ UNCHANGED <<nodeVars, storeVars, qCkpt, qEpoch, t1Vars, t2Vars, t3Vars, faults,
                 getVars, lastSent, runSent, epochSent, epochCalls, owed>>

\* checkpoint_receiver_guard.recv().await, waiting for an item with the guard
\* held; drop(checkpoint_receiver_guard); then as T2Recv.
T2RecvHeld ==
  /\ pc2 = "recv"
  /\ qCkpt # <<>>
  /\ Drop("T2", "checkpoint_receiver")
  /\ qCkpt' = Tail(qCkpt)
  /\ IF skip
     THEN UNCHANGED <<pc2, item2, retried2, owed>>
     ELSE /\ pc2' = "persist"
          /\ item2' = Some(Head(qCkpt))
          /\ retried2' = FALSE
          /\ owed' = owed \ {Head(qCkpt).sequence_number}
  /\ UNCHANGED <<nodeVars, storeVars, qEpoch, t1Vars, t3Vars, faults, getVars,
                 lastSent, runSent, epochSent, epochCalls>>

\* let mut epoch_receiver_guard = self.epoch_receiver.lock().await;
T3LockEpochReceiver ==
  /\ pc3 = "recv"
  /\ Lock("T3", "epoch_receiver")
  /\ UNCHANGED <<nodeVars, storeVars, qCkpt, qEpoch, t1Vars, t2Vars, t3Vars, faults,
                 getVars, lastSent, runSent, epochSent, epochCalls, owed>>

\* epoch_receiver_guard.recv().await, waiting for a record with the guard held;
\* drop(epoch_receiver_guard); then as T3Recv.
T3RecvHeld ==
  /\ pc3 = "recv"
  /\ qEpoch # <<>>
  /\ Drop("T3", "epoch_receiver")
  /\ qEpoch' = Tail(qEpoch)
  /\ retried3' = FALSE
  /\ T3Handle(Head(qEpoch))
  /\ UNCHANGED <<nodeVars, storeVars, qCkpt, t1Vars, t2Vars, faults, getVars,
                 lastSent, runSent, epochSent, owed>>

\* ------------------------------------------------------------------- process

\* The process dies and is started again: channels and task state are lost, the
\* store is kept. CheckpointHandler::new and spawn run again.
Crash ==
  /\ faults < MaxFaults
  /\ faults' = faults + 1
  /\ owed' = (owed \cup (IF pc2 = "persist" THEN {Unwrap(item2).sequence_number} ELSE {}))
               \ ckptTable
  /\ qCkpt' = <<>>
  /\ qEpoch' = <<>>
  /\ pc1' = "start"
  /\ cursor' = 0
  /\ lastFromDb' = -1
  /\ waited' = FALSE
  /\ pc2' = "recv"
  /\ item2' = None
  /\ retried2' = FALSE
  /\ pc3' = "recv"
  /\ item3' = None
  /\ retried3' = FALSE
  /\ getCalls' = {}
  /\ firstGet' = None
  /\ eventsDone' = {}
  /\ lastSent' = -1
  /\ runSent' = <<>>
  /\ UNCHANGED <<envVars, storeVars, epochSent, epochCalls>>

T1Progress ==
  \/ T1Start \/ T1Supervisor
  \/ T1GetCheckpointOk
  \/ T1FetchIndexOk
  \/ T1SendCheckpoint
  \/ T1PersistEpochCall \/ T1PersistEpochOk
  \/ T1SendEpoch
  \/ T1EventsOk

T1Error == T1StartErr \/ T1FetchIndexErr \/ T1PersistEpochErr \/ T1EventsErr

T1Next == T1Progress \/ T1GetCheckpointErr \/ T1Error

T2Next == T2Recv \/ T2PersistOk \/ T2PersistErr

T3Next == T3Recv \/ T3PersistOk \/ T3PersistErr

Next == T1Next \/ T2Next \/ T3Next \/ Crash

Spec == Init /\ [][Next]_vars

\* The runtime schedules every task that can run, and the node and the store
\* answer Ok eventually: each task's non-failing step is weakly fair.
FairSpec ==
  /\ Spec
  /\ WF_vars(T1Progress)
  /\ WF_vars(T2Recv \/ T2PersistOk)
  /\ WF_vars(T3Recv \/ T3PersistOk)

\* ---- the three tasks of one process that never dies: the T1 body is restarted
\* by its supervisor only.

NextTasks == T1Next \/ T2Next \/ T3Next

SpecTasks == Init /\ [][NextTasks]_vars

\* The three tasks, T1 recording in eventsDone the checkpoints whose events it
\* has handed to the event handler.
T1NextNoted ==
  \/ T1Start \/ T1Supervisor
  \/ T1GetCheckpointOk \/ T1GetCheckpointErr
  \/ T1FetchIndexOk
  \/ T1SendCheckpoint
  \/ T1PersistEpochCall \/ T1PersistEpochOk
  \/ T1SendEpoch
  \/ T1EventsOkNoted
  \/ T1Error

NextEvents == T1NextNoted \/ T2Next \/ T3Next

SpecEvents == Init /\ [][NextEvents]_vars

\* The same tasks on a store that commits, each task scheduled whenever it can
\* run, the node and the store answering Ok eventually.
InitCommit == Init /\ ~skip

FairTasks ==
  /\ InitCommit /\ [][NextTasks]_vars
  /\ WF_vars(T1Progress)
  /\ WF_vars(T2Recv \/ T2PersistOk)
  /\ WF_vars(T3Recv \/ T3PersistOk)

\* The fair tasks, T1 recording in eventsDone the checkpoints whose events it
\* has handed to the event handler.
T1ProgressNoted ==
  \/ T1Start \/ T1Supervisor
  \/ T1GetCheckpointOk
  \/ T1FetchIndexOk
  \/ T1SendCheckpoint
  \/ T1PersistEpochCall \/ T1PersistEpochOk
  \/ T1SendEpoch
  \/ T1EventsOkNoted

FairEvents ==
  /\ InitCommit /\ [][NextEvents]_vars
  /\ WF_vars(T1ProgressNoted)
  /\ WF_vars(T2Recv \/ T2PersistOk)
  /\ WF_vars(T3Recv \/ T3PersistOk)

\* ---- the handler clones and the channel endpoints they own.

\* Handlers that own only the endpoints their task uses.
Holds_OwnEndpoints(task) ==
  CASE task = "T1" -> {"checkpoint_sender", "epoch_sender"}
    [] task = "T2" -> {"checkpoint_receiver"}
    [] task = "T3" -> {"epoch_receiver"}

\* The endpoints the handler of a task owns: self.clone() copies the four Arcs.
Holds(task) ==
  {"checkpoint_sender", "checkpoint_receiver", "epoch_sender", "epoch_receiver"}

\* The endpoints that are still owned by a running task.
Owned == UNION {Holds(task) : task \in alive}

\* sender.send(..) returns a SendError: the receiver of the channel is dropped.
SendFails(receiver) == receiver \notin Owned

\* receiver.recv() returns None: every sender is dropped and the channel empty.
RecvNone(sender, queue) == sender \notin Owned /\ queue = <<>>

\* A task panics: it ends, whatever its supervisor loop, and drops its handler.
Panic(task) ==
  /\ task \in alive
  /\ faults < MaxFaults
  /\ faults' = faults + 1
  /\ alive' = alive \ {task}
  /\ UNCHANGED <<tip, epochLen, skip, held, fnIn, fnOut, storeVars, qCkpt, qEpoch,
                 t1Vars, t2Vars, t3Vars, getVars, lastSent, runSent, epochSent,
                 epochCalls, owed>>

\* The tasks that are running take their steps.
NextEndpoints ==
  \/ "T1" \in alive /\ T1Next
  \/ "T2" \in alive /\ T2Next
  \/ "T3" \in alive /\ T3Next
  \/ \E task \in {"T1", "T2", "T3"} : Panic(task)

SpecEndpoints == Init /\ [][NextEndpoints]_vars

\* ---- crashes: the pipeline on a store that commits, with process crashes as the
\* only faults and persist_checkpoint failing at will.

InitCrash == Init /\ ~skip

NextCrash ==
  \/ T1Start \/ T1GetCheckpointOk \/ T1FetchIndexOk
  \/ T1SendCheckpoint \/ T1PersistEpochCall \/ T1PersistEpochOk
  \/ T1SendEpoch \/ T1EventsOk
  \/ T2Next \/ T3Recv \/ T3PersistOk
  \/ Crash

CrashSpec ==
  /\ InitCrash /\ [][NextCrash]_vars
  /\ WF_vars(T1Progress)
  /\ WF_vars(T2Recv \/ T2PersistOk)
  /\ WF_vars(T3Recv \/ T3PersistOk)

\* ---- backpressure: a node that is CHECKPOINT_QUEUE_LIMIT + 2 checkpoints ahead
\* and serves them all, no fault injected.

InitBackpressure == InitWith(CHECKPOINT_QUEUE_LIMIT + 2)

NextBackpressure ==
  \/ T1Start \/ T1GetCheckpointErr \/ T1GetCheckpointOk \/ T1FetchIndexOk
  \/ T1SendCheckpoint \/ T1PersistEpochCall \/ T1PersistEpochOk
  \/ T1SendEpoch \/ T1EventsOk
  \/ T2Next \/ T3Next

SpecBackpressure == InitBackpressure /\ [][NextBackpressure]_vars

\* The same pipeline on a runtime that schedules every task that can run, with a
\* node and a store that answer Ok eventually.
FairBackpressure ==
  /\ SpecBackpressure
  /\ WF_vars(T1Progress)
  /\ WF_vars(T2Recv \/ T2PersistOk)
  /\ WF_vars(T3Recv \/ T3PersistOk)

\* ---- a store whose persist_epoch never returns to T3: neither Ok nor Err. The
\* node is ahead as above, no fault is injected, every task is scheduled.

NextEpochStall ==
  \/ T1Start \/ T1GetCheckpointErr \/ T1GetCheckpointOk \/ T1FetchIndexOk
  \/ T1SendCheckpoint \/ T1PersistEpochCall \/ T1PersistEpochOk
  \/ T1SendEpoch \/ T1EventsOk
  \/ T2Next \/ T3Recv

FairEpochStall ==
  /\ InitBackpressure /\ [][NextEpochStall]_vars
  /\ WF_vars(T1Progress)
  /\ WF_vars(T2Recv \/ T2PersistOk)
  /\ WF_vars(T3Recv)

\* ---- the pipeline with its guards, the node ahead as above, the node and the
\* store answering every call (persist calls may fail and are retried).

T1NextLocks ==
  \/ T1Start \/ T1GetCheckpointErr \/ T1GetCheckpointOk \/ T1FetchIndexOk
  \/ T1LockCheckpointSender \/ T1SendCheckpointHeld
  \/ T1PersistEpochCall \/ T1PersistEpochOk
  \/ T1LockEpochSender \/ T1SendEpochHeld
  \/ T1EventsOk

T2NextLocks == T2LockCheckpointReceiver \/ T2RecvHeld \/ T2PersistOk \/ T2PersistErr

T3NextLocks == T3LockEpochReceiver \/ T3RecvHeld \/ T3PersistOk \/ T3PersistErr

NextLocks == T1NextLocks \/ T2NextLocks \/ T3NextLocks

SpecLocks == InitBackpressure /\ [][NextLocks]_vars

\* ---- start_epoch_commit alone, fed by a sender that may send any record
\* index_checkpoint can produce.

EpochRecords ==
  {Unwrap(IndexEpoch(CheckpointData(s))) :
     s \in {x \in 0..tip : IsSome(IndexEpoch(CheckpointData(x)))}}

\* epoch_sender.send(rec) by any holder of the sender half.
EnvSendEpoch ==
  \E rec \in EpochRecords :
    /\ Len(qEpoch) < EPOCH_QUEUE_LIMIT
    /\ qEpoch' = Append(qEpoch, rec)
    /\ epochSent' = epochSent \cup {rec}
    /\ UNCHANGED <<envVars, storeVars, qCkpt, t1Vars, t2Vars, t3Vars, faults,
                   getVars, lastSent, runSent, epochCalls, owed>>

NextEpochCommit == EnvSendEpoch \/ T3Next

SpecEpochCommit == Init /\ [][NextEpochCommit]_vars

\* ------------------------------------------------ download_checkpoint_data

Ok(v) == [ok |-> TRUE, value |-> v]

Err == [ok |-> FALSE]

Min(a, b) == IF a < b THEN a ELSE b

\* The concatenation of a list of lists, computed by halves.
RECURSIVE Concat(_)
Concat(lists) ==
  IF lists = <<>> THEN <<>>
  ELSE IF Len(lists) = 1 THEN lists[1]
  ELSE LET half == Len(lists) \div 2 IN
       Concat(SubSeq(lists, 1, half)) \o Concat(SubSeq(lists, half + 1, Len(lists)))

\* slice.chunks_exact(size): the elements after the last full slice are left out.
RECURSIVE Chunks_Exact(_, _)
Chunks_Exact(list, size) ==
  IF Len(list) < size THEN <<>>
  ELSE <<SubSeq(list, 1, size)>> \o Chunks_Exact(SubSeq(list, size + 1, Len(list)), size)

\* slice.chunks(size): consecutive slices of `size` elements, the last one shorter
\* when the length is not a multiple; no slice for an empty list.
RECURSIVE Chunks(_, _)
Chunks(list, size) ==
  IF list = <<>> THEN <<>>
  ELSE <<SubSeq(list, 1, Min(size, Len(list)))>>
         \o Chunks(SubSeq(list, Min(size, Len(list)) + 1, Len(list)), size)

\* a.into_iter().zip(b): pairs up to the end of the shorter list.
Zip(a, b) == [i \in 1..Min(Len(a), Len(b)) |-> <<a[i], b[i]>>]

\* refs.iter().map(|o| (o.reference.object_id, o.reference.version, status))
WithStatus(refs, status) ==
  [i \in 1..Len(refs) |->
     [object_id |-> refs[i].object_id, version |-> refs[i].version, status |-> status]]

\* get_object_changes with the mutated objects chained first.
get_object_changes_MutatedFirst(effects) ==
  WithStatus(effects.mutated, "Mutated")
    \o WithStatus(effects.created, "Created")
    \o WithStatus(effects.unwrapped, "Unwrapped")

\* get_object_changes(effects)
get_object_changes(effects) ==
  WithStatus(effects.created, "Created")
    \o WithStatus(effects.mutated, "Mutated")
    \o WithStatus(effects.unwrapped, "Unwrapped")

\* get_deleted_db_objects that takes the unwrapped objects for removed ones too.
get_deleted_db_objects_WithUnwrapped(effects) ==
  WithStatus(effects.deleted, "Deleted")
    \o WithStatus(effects.wrapped, "Wrapped")
    \o WithStatus(effects.unwrapped, "Unwrapped")
    \o WithStatus(effects.unwrapped_then_deleted, "UnwrappedThenDeleted")

\* get_deleted_db_objects(effects, ..)
get_deleted_db_objects(effects) ==
  WithStatus(effects.deleted, "Deleted")
    \o WithStatus(effects.wrapped, "Wrapped")
    \o WithStatus(effects.unwrapped_then_deleted, "UnwrappedThenDeleted")

\* transactions.iter().flat_map(|tx| get_object_changes(&tx.effects)).collect(),
\* computed by halves.
RECURSIVE FlatMapObjectChanges(_)
FlatMapObjectChanges(transactions) ==
  IF transactions = <<>> THEN <<>>
  ELSE IF Len(transactions) = 1 THEN get_object_changes(transactions[1].effects)
  ELSE LET half == Len(transactions) \div 2 IN
       FlatMapObjectChanges(SubSeq(transactions, 1, half))
         \o FlatMapObjectChanges(SubSeq(transactions, half + 1, Len(transactions)))

\* The node's answer to one past-object request. The node of the model gives the
\* objects a transaction writes the version equal to that transaction's digest.
PastObjectResponse(request) ==
  [variant |-> "VersionFound",
   object  |-> [object_id |-> request.object_id,
                version   |-> request.version,
                previous_transaction |-> Some(request.version)]]

\* http_client.try_multi_get_past_objects(requests, ..) as the node answers it:
\* "ok" is one VersionFound response per request in request order, "err" an RPC
\* error, "not_found" the same list with VersionNotFound in the last place,
\* "short" the list without its last response.
try_multi_get_past_objects(requests, answer) ==
  LET found == [i \in 1..Len(requests) |-> PastObjectResponse(requests[i])] IN
  CASE answer = "ok"        -> Ok(found)
    [] answer = "err"       -> Err
    [] answer = "not_found" ->
         Ok([found EXCEPT ![Len(requests)] = [variant |-> "VersionNotFound"]])
    [] answer = "short"     -> Ok(SubSeq(found, 1, Len(requests) - 1))

\* resp.into_object() over the responses of one call, with try_fold.
IntoObjects(responses) ==
  IF \E i \in 1..Len(responses) : responses[i].variant # "VersionFound"
  THEN Err
  ELSE Ok([i \in 1..Len(responses) |-> responses[i].object])

\* The try_fold of fetch_changed_objects over the joined chunk results.
RECURSIVE FoldChangedObjects(_, _, _, _)
FoldChangedObjects(chunks, answers, i, acc) ==
  IF i > Len(chunks) THEN Ok(acc)
  ELSE LET objects == chunks[i]
           wanted_past_object_statuses ==
             [k \in 1..Len(objects) |-> objects[k].status]
           wanted_past_object_request ==
             [k \in 1..Len(objects) |->
                [object_id |-> objects[k].object_id, version |-> objects[k].version]]
           resp == try_multi_get_past_objects(wanted_past_object_request, answers[i])
       IN IF ~resp.ok THEN Err
          ELSE LET object_datas == IntoObjects(resp.value) IN
               IF ~object_datas.ok THEN Err
               ELSE FoldChangedObjects(chunks, answers, i + 1,
                      acc \o Zip(wanted_past_object_statuses, object_datas.value))

\* fetch_changed_objects(http_client, object_changes)
fetch_changed_objects(object_changes, answers) ==
  FoldChangedObjects(Chunks(object_changes, MULTI_GET_CHUNK_SIZE), answers, 1, <<>>)

\* multi_get_full_transactions(http_client, digests) as the node answers it: the
\* transactions of the digests in order, or an error.
multi_get_full_transactions(digests, answer, node) ==
  IF answer = "ok" THEN Ok([i \in 1..Len(digests) |-> node[digests[i]]]) ELSE Err

\* The try_fold of download_checkpoint_data over the joined transaction chunks.
RECURSIVE FoldTransactions(_, _, _, _, _)
FoldTransactions(chunks, answers, node, i, acc) ==
  IF i > Len(chunks) THEN Ok(acc)
  ELSE LET chunk == multi_get_full_transactions(chunks[i], answers[i], node) IN
       IF ~chunk.ok THEN Err
       ELSE FoldTransactions(chunks, answers, node, i + 1, acc \o chunk.value)

\* The requests of the calls join_all issues for a chunked list: one per chunk.
CallSizes(list) ==
  LET chunks == Chunks(list, MULTI_GET_CHUNK_SIZE) IN
  [i \in 1..Len(chunks) |-> Len(chunks[i])]

\* download_checkpoint_data after get_checkpoint has answered: the result and the
\* sizes of the RPC calls made on the way.
download_checkpoint_data(checkpoint, node, tx_answers, object_answers) ==
  LET transactions ==
        FoldTransactions(Chunks(checkpoint.transactions, MULTI_GET_CHUNK_SIZE),
                         tx_answers, node, 1, <<>>)
      tx_calls == CallSizes(checkpoint.transactions)
  IN IF ~transactions.ok
     THEN [result |-> Err, tx_calls |-> tx_calls, object_calls |-> <<>>]
     ELSE LET object_changes == FlatMapObjectChanges(transactions.value)
              changed_objects == fetch_changed_objects(object_changes, object_answers)
          IN [result |->
                IF ~changed_objects.ok THEN Err
                ELSE Ok([checkpoint      |-> checkpoint,
                         transactions    |-> transactions.value,
                         changed_objects |-> changed_objects.value]),
              tx_calls |-> tx_calls,
              object_calls |-> CallSizes(object_changes)]

\* The maps of two consecutive parts of the list folded into one, the later part
\* replacing the lists of the earlier one in the place of extending them.
MergeGroups_Overwrite(a, b) ==
  [d \in DOMAIN a \cup DOMAIN b |-> IF d \in DOMAIN b THEN b[d] ELSE a[d]]

\* acc.entry(digest).or_default().push(entry): the maps of two consecutive parts
\* of the list folded into one, each list of the later part appended to the list
\* the earlier part has under the same digest.
MergeGroups(a, b) ==
  [d \in DOMAIN a \cup DOMAIN b |->
     (IF d \in DOMAIN a THEN a[d] ELSE <<>>)
       \o (IF d \in DOMAIN b THEN b[d] ELSE <<>>)]

\* index_checkpoint, "Index objects": the fold of changed_objects into a map from
\* the digest of the previous transaction to the (status, object) pairs, in the
\* order of changed_objects; an object without previous transaction is left out.
RECURSIVE tx_objects(_)
tx_objects(changed_objects) ==
  IF changed_objects = <<>> THEN <<>>
  ELSE IF Len(changed_objects) = 1
  THEN LET entry == changed_objects[1] IN
       IF IsSome(entry[2].previous_transaction)
       THEN Unwrap(entry[2].previous_transaction) :> <<entry>>
       ELSE <<>>
  ELSE LET half == Len(changed_objects) \div 2 IN
       MergeGroups(tx_objects(SubSeq(changed_objects, 1, half)),
                   tx_objects(SubSeq(changed_objects, half + 1,
                                     Len(changed_objects))))

\* index_checkpoint, "Index objects": one TransactionObjectChanges per
\* transaction, its changed objects being the group of the transaction's digest
\* (none when the map has no such key).
objects_changes(data) ==
  LET groups == tx_objects(data.changed_objects) IN
  [i \in 1..Len(data.transactions) |->
     LET tx == data.transactions[i]
         group == IF tx.digest \in DOMAIN groups THEN groups[tx.digest] ELSE <<>>
     IN [changed_objects |->
           [k \in 1..Len(group) |->
              [object_id |-> group[k][2].object_id,
               version   |-> group[k][2].version,
               status    |-> group[k][1]]],
         deleted_objects |-> get_deleted_db_objects(tx.effects)]]

\* ---- index_checkpoint alone, called on any CheckpointData a node can serve.

AuthorityNames == {[pubkey |-> <<1>>], [pubkey |-> <<2>>]}

Stakes == {0, 5}

Committees ==
  UNION {[1..n -> AuthorityNames \X Stakes] : n \in 0..MaxCommittee}

Timestamps == {1000, 1001}

\* A checkpoint is in an epoch no later than its sequence number; the system state
\* found in its data is of the checkpoint's epoch or of the next one.
IndexInputs ==
  UNION {UNION {
    {[checkpoint |-> [sequence_number   |-> s,
                      epoch             |-> e,
                      timestamp_ms      |-> t,
                      end_of_epoch_data |-> eoe],
      system_state_epoch |-> y] :
        t \in Timestamps,
        eoe \in {None} \cup {Some([next_epoch_committee |-> c]) : c \in Committees},
        y \in {e, e + 1}}
    : e \in 0..s} : s \in 0..MaxSeq}

\* index_checkpoint(&data)
CallIndexCheckpoint ==
  /\ fnIn.fn = "none"
  /\ \E data \in IndexInputs :
       /\ fnIn' = [fn |-> "index_checkpoint", data |-> data]
       /\ fnOut' = [fn |-> "index_checkpoint", result |-> IndexCheckpoint(data)]
       /\ UNCHANGED <<tip, epochLen, skip, alive, held, storeVars, qCkpt, qEpoch, t1Vars, t2Vars,
                      t3Vars, faults, getVars, lastSent, runSent, epochSent, epochCalls, owed>>

SpecIndex == Init /\ [][CallIndexCheckpoint]_vars

\* ---- download_checkpoint_data and the object part of index_checkpoint alone,
\* called on the checkpoints of a node whose RPC calls answer in any of the ways
\* listed at try_multi_get_past_objects and multi_get_full_transactions.

ObjectIds == [k \in 1..MaxObjects |-> k]

\* Numbers of transactions in the checkpoints enumerated in full.
TxCounts == {0, 1, 2}

Touch ==
  {"none", "created", "mutated", "unwrapped", "deleted", "wrapped",
   "unwrapped_then_deleted"}

\* The references of one list of the effects of transaction d: the objects the
\* transaction touches in that way, at the version the transaction writes.
Refs(touch, kind, d) ==
  LET touched(id) == touch[id] = kind
      ids == SelectSeq(ObjectIds, touched)
  IN [k \in 1..Len(ids) |-> [object_id |-> ids[k], version |-> d]]

\* The node's transaction with digest d.
TransactionOf(touch, d) ==
  [digest  |-> d,
   effects |-> [transaction_digest     |-> d,
                created                |-> Refs(touch, "created", d),
                mutated                |-> Refs(touch, "mutated", d),
                unwrapped              |-> Refs(touch, "unwrapped", d),
                deleted                |-> Refs(touch, "deleted", d),
                wrapped                |-> Refs(touch, "wrapped", d),
                unwrapped_then_deleted |-> Refs(touch, "unwrapped_then_deleted", d)]]

\* Checkpoints of a few transactions, each touching each object in any way.
SmallNodes ==
  UNION {{[d \in 1..m |-> TransactionOf(t[d], d)] :
            t \in [1..m -> [1..MaxObjects -> Touch]]} :
         m \in TxCounts}

\* List lengths around the multiples of MULTI_GET_CHUNK_SIZE.
BigSizes ==
  {c * MULTI_GET_CHUNK_SIZE + r : c \in 0..(MaxChunks - 1), r \in {1, 300, 500}}

\* A checkpoint of one transaction that creates n objects.
ManyObjectsNode(n) ==
  [d \in 1..1 |->
     [digest  |-> d,
      effects |-> [transaction_digest     |-> d,
                   created                |-> [k \in 1..n |-> [object_id |-> k, version |-> d]],
                   mutated                |-> <<>>,
                   unwrapped              |-> <<>>,
                   deleted                |-> <<>>,
                   wrapped                |-> <<>>,
                   unwrapped_then_deleted |-> <<>>]]]

\* A checkpoint of n transactions that touch no object.
ManyTransactionsNode(n) ==
  [d \in 1..n |-> TransactionOf([id \in 1..MaxObjects |-> "none"], d)]

Nodes ==
  SmallNodes \cup {ManyObjectsNode(n) : n \in BigSizes}
             \cup {ManyTransactionsNode(n) : n \in BigSizes}

NumChunks(n) == (n + MULTI_GET_CHUNK_SIZE - 1) \div MULTI_GET_CHUNK_SIZE

TxAnswers == {"ok", "err"}

ObjectAnswers == {"ok", "err", "not_found", "short"}

\* download_checkpoint_data for the checkpoint of `node`, then the object part of
\* index_checkpoint on what it returned.
CallDownloadCheckpointData ==
  /\ fnIn.fn = "none"
  /\ \E node \in Nodes :
       \E tx_answers \in [1..NumChunks(Len(node)) -> TxAnswers] :
         \E object_answers \in
              [1..NumChunks(Len(FlatMapObjectChanges(node))) -> ObjectAnswers] :
           LET checkpoint == [sequence_number |-> 1, epoch |-> 0,
                              transactions |-> [d \in 1..Len(node) |-> d]]
               out == download_checkpoint_data(checkpoint, node, tx_answers, object_answers)
           IN /\ fnIn' = [fn |-> "download_checkpoint_data", node |-> node,
                          tx_answers |-> tx_answers, object_answers |-> object_answers]
              /\ fnOut' = [fn |-> "download_checkpoint_data",
                           result |-> out.result,
                           tx_calls |-> out.tx_calls,
                           object_calls |-> out.object_calls,
                           objects_changes |->
                             IF out.result.ok THEN objects_changes(out.result.value)
                             ELSE <<>>]
              /\ UNCHANGED <<tip, epochLen, skip, alive, held, storeVars, qCkpt, qEpoch, t1Vars,
                             t2Vars, t3Vars, faults, getVars, lastSent, runSent, epochSent,
                             epochCalls, owed>>

InitFetch == Init /\ epochLen = 1 /\ ~skip

SpecFetch == InitFetch /\ [][CallDownloadCheckpointData]_vars

\* ---- get_object_changes and get_deleted_db_objects alone, called on effects
\* that touch up to MaxRefs objects, each in one way, listed in any order.

\* The orders in which the objects can be listed.
Orders ==
  UNION {{o \in [1..n -> 1..n] : \A i, j \in 1..n : i # j => o[i] # o[j]} :
         n \in 0..MaxRefs}

\* The references of one list of the effects: the objects touched in that way, in
\* the order `order` lists them.
OrderedRefs(order, touch, kind) ==
  LET touched(id) == touch[id] = kind
      ids == SelectSeq(order, touched)
  IN [k \in 1..Len(ids) |-> [object_id |-> ids[k], version |-> 1]]

EffectsOf(order, touch) ==
  [transaction_digest     |-> 1,
   created                |-> OrderedRefs(order, touch, "created"),
   mutated                |-> OrderedRefs(order, touch, "mutated"),
   unwrapped              |-> OrderedRefs(order, touch, "unwrapped"),
   deleted                |-> OrderedRefs(order, touch, "deleted"),
   wrapped                |-> OrderedRefs(order, touch, "wrapped"),
   unwrapped_then_deleted |-> OrderedRefs(order, touch, "unwrapped_then_deleted")]

\* get_object_changes(&effects) and get_deleted_db_objects(&effects, ..)
CallObjectChanges ==
  /\ fnIn.fn = "none"
  /\ \E order \in Orders :
       \E touch \in [1..Len(order) -> Touch \ {"none"}] :
         LET effects == EffectsOf(order, touch) IN
         /\ fnIn' = [fn |-> "get_object_changes", effects |-> effects]
         /\ fnOut' = [fn |-> "get_object_changes",
                      changed |-> get_object_changes(effects),
                      deleted |-> get_deleted_db_objects(effects)]
         /\ UNCHANGED <<tip, epochLen, skip, alive, held, storeVars, qCkpt, qEpoch, t1Vars,
                        t2Vars, t3Vars, faults, getVars, lastSent, runSent, epochSent,
                        epochCalls, owed>>

SpecEffects == InitFetch /\ [][CallObjectChanges]_vars

\* ---- index_packages alone.

\* Package::try_from(sender, package): the row made of the sender and the
\* package, or an error for a package whose modules cannot be converted.
PackageTryFrom(sender, package) ==
  IF package.convertible THEN Ok([sender |-> sender, package |-> package])
  ELSE Err

\* index_packages, object_map, with every changed object kept whatever the
\* variant of its content.
object_map_AnyVariant(changed_objects) ==
  LET at(id) == {k \in 1..Len(changed_objects) :
                   changed_objects[k][2].object_id = id}
  IN [id \in {changed_objects[k][2].object_id : k \in 1..Len(changed_objects)} |->
        Unwrap(changed_objects[SetMax(at(id))][2].bcs).payload]

\* index_packages, object_map: the changed objects whose content is a package,
\* keyed by object id; of two with one id the later stays.
object_map(changed_objects) ==
  LET packages == {k \in 1..Len(changed_objects) :
                     Unwrap(changed_objects[k][2].bcs).variant = "Package"}
      at(id) == {k \in packages : changed_objects[k][2].object_id = id}
  IN [id \in {changed_objects[k][2].object_id : k \in packages} |->
        Unwrap(changed_objects[SetMax(at(id))][2].bcs).payload]

\* collect::<Result<Vec<_>, _>>() of a list of results: the values when all are
\* Ok, the error otherwise.
CollectResults(results) ==
  IF \E k \in 1..Len(results) : ~results[k].ok THEN Err
  ELSE Ok([k \in 1..Len(results) |-> results[k].value])

\* index_packages(transactions, changed_objects)
index_packages(transactions, changed_objects) ==
  LET map == object_map(changed_objects)
      of_tx(tx) ==
        [k \in 1..Len(tx.effects.created) |->
           LET id == tx.effects.created[k].object_id IN
           IF id \in DOMAIN map
           THEN Some(PackageTryFrom(tx.transaction.data.sender, map[id]))
           ELSE None]
      options == Concat([i \in 1..Len(transactions) |-> of_tx(transactions[i])])
      present == SelectSeq(options, IsSome)
  IN CollectResults([k \in 1..Len(present) |-> Unwrap(present[k])])

\* What a transaction does to an object: nothing, or its creation or mutation.
PackageTouch == {"none", "created", "mutated"}

\* The contents an object can have: a Move object, or a package whose row
\* conversion succeeds or fails.
Contents ==
  {[variant |-> "MoveObject", convertible |-> FALSE]}
    \cup {[variant |-> "Package", convertible |-> c] : c \in BOOLEAN}

\* The references of transaction d to the objects it touches in the way `kind`.
PackageRefs(touch, by, kind, d) ==
  LET touched(id) == touch[id] = kind /\ by[id] = d
      ids == SelectSeq([id \in 1..MaxRefs |-> id], touched)
  IN [k \in 1..Len(ids) |-> [object_id |-> ids[k], version |-> d]]

\* Transaction d of the checkpoint.
PackageTransaction(touch, by, d) ==
  [digest      |-> d,
   transaction |-> [data |-> [sender |-> [address |-> d]]],
   effects     |-> [transaction_digest     |-> d,
                    created                |-> PackageRefs(touch, by, "created", d),
                    mutated                |-> PackageRefs(touch, by, "mutated", d),
                    unwrapped              |-> <<>>,
                    deleted                |-> <<>>,
                    wrapped                |-> <<>>,
                    unwrapped_then_deleted |-> <<>>]]

\* The changed objects of the transactions as fetch_changed_objects returns
\* them: the object changes of each transaction, each with the object's content.
PackageChangedObjects(transactions, content) ==
  LET changes == FlatMapObjectChanges(transactions) IN
  [k \in 1..Len(changes) |->
     <<changes[k].status,
       [object_id |-> changes[k].object_id,
        version   |-> changes[k].version,
        previous_transaction |-> Some(changes[k].version),
        bcs |-> Some([variant |-> content[changes[k].object_id].variant,
                      payload |-> [id |-> changes[k].object_id,
                                   convertible |->
                                     content[changes[k].object_id].convertible]])]>>]

\* Self::index_packages(transactions, changed_objects)
CallIndexPackages ==
  /\ fnIn.fn = "none"
  /\ \E n \in 1..2 :
       \E touch \in [1..MaxRefs -> PackageTouch] :
         \E by \in [1..MaxRefs -> 1..n] :
           \E content \in [1..MaxRefs -> Contents] :
             LET transactions == [d \in 1..n |-> PackageTransaction(touch, by, d)]
                 changed_objects == PackageChangedObjects(transactions, content)
             IN /\ \A id \in 1..MaxRefs : touch[id] = "none" => by[id] = 1
                /\ fnIn' = [fn |-> "index_packages",
                            transactions |-> transactions,
                            changed_objects |-> changed_objects]
                /\ fnOut' = [fn |-> "index_packages",
                             result |-> index_packages(transactions, changed_objects)]
                /\ UNCHANGED <<tip, epochLen, skip, alive, held, storeVars, qCkpt, qEpoch, t1Vars,
                               t2Vars, t3Vars, faults, getVars, lastSent, runSent, epochSent,
                               epochCalls, owed>>

SpecPackages == InitFetch /\ [][CallIndexPackages]_vars

\* ---- gas tests (sui-core, unit_tests/gas_tests.rs). The tests are in the
\* sources; the authority they drive is not, and is written here from what the
\* tests say of it.

UserInputError(e) == [ok |-> FALSE, error |-> e]

\* SuiCostTable::new_for_testing(): the minimum and maximum budget.
CostTables ==
  {[min_budget |-> lo, max_budget |-> hi] : lo \in 1..MaxGas, hi \in 1..MaxGas}
    \ {t \in [min_budget : 1..MaxGas, max_budget : 1..MaxGas] :
         t.min_budget > t.max_budget}

\* What the execution of the transfer needs when it succeeds.
Costs ==
  [computation_cost : 1..2, storage_cost : 0..2, storage_rebate : 0..1]

\* GasCostSummary::gas_used()
gas_used(summary) == summary.computation_cost + summary.storage_cost

\* GasCostSummary::net_gas_usage()
net_gas_usage(summary) == gas_used(summary) - summary.storage_rebate

\* authority_state.handle_transaction: the gas checks of the handling phase. The
\* budget is checked against the table before the balance of the gas coin is
\* looked at (test_tx_more_than_maximum_gas_budget has a balance below the
\* budget and expects GasBudgetTooHigh).
handle_transaction(data, gas_object, table, rgp) ==
  IF data.gas_price < rgp
  THEN UserInputError([kind |-> "GasPriceUnderRGP"])
  ELSE IF data.gas_budget < table.min_budget
  THEN UserInputError([kind |-> "GasBudgetTooLow",
                       gas_budget |-> data.gas_budget,
                       min_budget |-> table.min_budget])
  ELSE IF data.gas_budget > table.max_budget
  THEN UserInputError([kind |-> "GasBudgetTooHigh",
                       gas_budget |-> data.gas_budget,
                       max_budget |-> table.max_budget])
  ELSE IF gas_object.balance < data.gas_budget
  THEN UserInputError([kind |-> "GasBalanceTooLow"])
  ELSE Ok("Signed")

\* The version the objects written by a transaction get: one above the highest
\* version among its inputs.
LamportVersion(objects) == SetMax({o.version : o \in objects}) + 1

\* The execution of a certified transfer: the effects and the objects it writes.
\* With a budget below what the transfer needs the status is InsufficientGas,
\* the whole budget is charged as computation, nothing is charged or rebated for
\* storage, and the transfer is undone: the objects keep their owners and get
\* the new version.
execute_certificate(data, gas_object, object, cost) ==
  LET version == LamportVersion({gas_object, object})
      out_of_gas == data.gas_budget < gas_used(cost)
      summary == IF out_of_gas
                 THEN [computation_cost |-> data.gas_budget,
                       storage_cost |-> 0, storage_rebate |-> 0]
                 ELSE cost
      gas_after == [gas_object EXCEPT
                      !.balance = gas_object.balance - net_gas_usage(summary),
                      !.version = version]
      object_after == [object EXCEPT
                         !.version = version,
                         !.owner = IF out_of_gas THEN data.sender
                                   ELSE data.recipient]
  IN [effects |->
        [status |-> IF out_of_gas THEN "InsufficientGas" ELSE "Success",
         gas_cost_summary |-> summary,
         mutated |-> <<gas_after, object_after>>,
         mutated_excluding_gas |-> <<object_after>>],
      gas_object |-> gas_after,
      object |-> object_after]

\* authority_tests::send_and_confirm_transaction: the handling phase, and the
\* execution of the certificate when the handling accepted the transaction.
send_and_confirm_transaction(data, gas_object, object, table, rgp, cost) ==
  LET handled == handle_transaction(data, gas_object, table, rgp) IN
  IF ~handled.ok
  THEN [response |-> handled, gas_object |-> gas_object, object |-> object]
  ELSE LET executed == execute_certificate(data, gas_object, object, cost) IN
       [response |-> Ok([status |-> "Executed", effects |-> executed.effects]),
        gas_object |-> executed.gas_object,
        object |-> executed.object]

\* The authority's reference gas price.
reference_gas_price_for_testing == 1

\* execute_transfer_with_price with the balance of the gas coin given to
\* TransactionData::new as the budget.
execute_transfer_with_price_BalanceAsBudget(gas_balance, gas_budget, rgp_multiple, run_confirm, table, cost) ==
  LET rgp == reference_gas_price_for_testing * rgp_multiple
      gas_object == [id |-> "gas", owner |-> "sender", version |-> 1,
                     balance |-> gas_balance]
      object == [id |-> "object", owner |-> "sender", version |-> 1, balance |-> 0]
      data == [sender |-> "sender", recipient |-> "recipient",
               gas_budget |-> gas_balance, gas_price |-> rgp]
  IN IF run_confirm
     THEN send_and_confirm_transaction(data, gas_object, object, table,
                                       reference_gas_price_for_testing, cost)
     ELSE [response |-> handle_transaction(data, gas_object, table,
                                           reference_gas_price_for_testing),
           gas_object |-> gas_object,
           object |-> object]

\* execute_transfer_with_price(gas_balance, gas_budget, rgp_multiple,
\* run_confirm): the sender owns an object and a gas coin of gas_balance, and
\* transfers the object to the recipient with gas_budget; the transaction is
\* handled only, or handled and executed.
execute_transfer_with_price(gas_balance, gas_budget, rgp_multiple, run_confirm, table, cost) ==
  LET rgp == reference_gas_price_for_testing * rgp_multiple
      gas_object == [id |-> "gas", owner |-> "sender", version |-> 1,
                     balance |-> gas_balance]
      object == [id |-> "object", owner |-> "sender", version |-> 1, balance |-> 0]
      data == [sender |-> "sender", recipient |-> "recipient",
               gas_budget |-> gas_budget, gas_price |-> rgp]
  IN IF run_confirm
     THEN send_and_confirm_transaction(data, gas_object, object, table,
                                       reference_gas_price_for_testing, cost)
     ELSE [response |-> handle_transaction(data, gas_object, table,
                                           reference_gas_price_for_testing),
           gas_object |-> gas_object,
           object |-> object]

\* execute_transfer with the balance and the budget in each other's place.
execute_transfer_Swapped(gas_balance, gas_budget, run_confirm, table, cost) ==
  execute_transfer_with_price(gas_budget, gas_balance, 1, run_confirm, table, cost)

\* execute_transfer(gas_balance, gas_budget, run_confirm)
execute_transfer(gas_balance, gas_budget, run_confirm, table, cost) ==
  execute_transfer_with_price(gas_balance, gas_budget, 1, run_confirm, table, cost)

\* One call of execute_transfer by a test, on any cost table and amounts.
CallExecuteTransfer ==
  /\ fnIn.fn = "none"
  /\ \E table \in CostTables :
       \E gas_balance, gas_budget \in 0..(MaxGas + 1) :
         \E run_confirm \in BOOLEAN :
           \E cost \in Costs :
             /\ cost.storage_rebate <= cost.storage_cost
             /\ fnIn' = [fn |-> "execute_transfer", table |-> table,
                         gas_balance |-> gas_balance, gas_budget |-> gas_budget,
                         run_confirm |-> run_confirm, cost |-> cost]
             /\ fnOut' = [fn |-> "execute_transfer",
                          result |-> execute_transfer(gas_balance, gas_budget,
                                                      run_confirm, table, cost)]
             /\ UNCHANGED <<tip, epochLen, skip, alive, held, storeVars, qCkpt, qEpoch, t1Vars,
                            t2Vars, t3Vars, faults, getVars, lastSent, runSent, epochSent,
                            epochCalls, owed>>

SpecGas == InitFetch /\ [][CallExecuteTransfer]_vars

\* =========================================================== properties

\* T1 has sent the checkpoint at `cursor` and has not advanced the cursor yet.
PostSend == {"call_persist_epoch", "persist_epoch", "send_epoch", "events"}

\* A successful persist_checkpoint of the item T2 holds.
CommitStep == pc2 = "persist" /\ pc2' = "recv" /\ faults' = faults

\* C1. Monotonic commit: whenever persist_checkpoint(a) succeeds, no checkpoint
\* b > a has been persisted before, also when the T1 body has been restarted.
C1_MonotonicCommit ==
  [][CommitStep => \A b \in ckptTable : b <= Unwrap(item2).sequence_number]_vars

\* C2. The sequence numbers of the items sent on the checkpoint channel are
\* strictly increasing over the whole execution, across restarts of the T1 body.
C2_SendOrder ==
  [][Len(qCkpt') = Len(qCkpt) + 1
       => qCkpt'[Len(qCkpt')].sequence_number > lastSent]_vars

\* C3. Genesis ordering: when persist_checkpoint(sequence_number = 0) is called,
\* persist_epoch has already been called for the genesis epoch record.
C3_GenesisEpochFirst ==
  (pc2 = "persist" /\ Unwrap(item2).sequence_number = 0)
    => \E c \in epochCalls :
         c.by = "T1" /\ c.rec.new_epoch.epoch = 0 /\ ~IsSome(c.rec.last_epoch)

\* C6. Cursor derivation: a run of the T1 body starts at the store's latest
\* sequence number plus one, computed on the signed value; its first
\* get_checkpoint call is for that number and none of its calls is for a number
\* less than or equal to what the store returned.
C6_CursorDerivation ==
  [][/\ (pc1 = "start" /\ pc1' = "download")
          => /\ lastFromDb' = LatestCheckpointSequenceNumber
             /\ cursor' = LatestCheckpointSequenceNumber + 1
             /\ (ckptTable = {} => cursor' = 0)
     /\ IsSome(firstGet') => Unwrap(firstGet') = lastFromDb' + 1
     /\ \A s \in getCalls' : s > lastFromDb' /\ s >= 0]_vars

\* C6 witness: a warm resume that has requested two checkpoints.
C6_Witness ==
  /\ lastFromDb >= 0
  /\ firstGet = Some(lastFromDb + 1)
  /\ Cardinality(getCalls) >= 2

\* C7. Availability wait: a get_checkpoint error keeps T1 in the availability
\* loop for the same sequence number and changes nothing else (no error of
\* the body, no restart, no new cursor); the checkpoint sent after the wait
\* is the one at the cursor.
C7_AvailabilityWait ==
  [][/\ (~waited /\ waited')
          => /\ pc1 = "download" /\ pc1' = "download"
             /\ UNCHANGED <<cursor, lastFromDb, faults, qCkpt, qEpoch,
                            ckptTable, epochTable, lastSent, runSent, t2Vars, t3Vars>>
     /\ (waited' /\ pc1' \in PostSend) => lastSent' = cursor']_vars

\* C7 witness: the first get_checkpoint failed, and the checkpoint was then
\* sent and committed without any restart.
C7_Witness ==
  /\ waited
  /\ pc1 = "events"
  /\ lastSent = cursor
  /\ faults = 0
  /\ cursor \in ckptTable

\* C8. Checkpoint commit retry: while T2 holds checkpoint k in persist_checkpoint
\* it keeps k and calls again after a failure; it leaves that state only by
\* committing k, never dequeues in between and never returns an error.
C8_CommitRetry ==
  [][(pc2 = "persist" /\ faults' = faults)
       => /\ Len(qCkpt') >= Len(qCkpt)
          /\ \/ pc2' = "persist" /\ item2' = item2 /\ ckptTable' = ckptTable
             \/ /\ pc2' = "recv"
                /\ ckptTable' = ckptTable \cup {Unwrap(item2).sequence_number}]_vars

\* C8 witness: persist_checkpoint has failed and has been called again.
C8_Witness == pc2 = "persist" /\ retried2 /\ ~skip

\* C10. Epoch routing in T1: a record without last_epoch is persisted inline and
\* never sent on the epoch channel; a record with last_epoch is sent on the
\* epoch channel and never persisted by T1.
C10_EpochRouting ==
  /\ \A i \in 1..Len(qEpoch) : IsSome(qEpoch[i].last_epoch)
  /\ \A r \in epochSent : IsSome(r.last_epoch)
  /\ \A c \in epochCalls : c.by = "T1" => ~IsSome(c.rec.last_epoch)
  /\ (pc1 = "events" /\ IsSome(Indexed.indexed_epoch))
       => LET r == Unwrap(Indexed.indexed_epoch) IN
          IF IsSome(r.last_epoch)
          THEN r \in epochSent
          ELSE /\ [by |-> "T1", rec |-> r] \in epochCalls
               /\ r.new_epoch.epoch \in epochTable

\* C10 witness: a boundary record has been sent on the epoch channel after the
\* genesis record was persisted inline.
C10_Witness ==
  /\ pc1 = "events"
  /\ IsSome(Indexed.indexed_epoch)
  /\ IsSome(Unwrap(Indexed.indexed_epoch).last_epoch)
  /\ Unwrap(Indexed.indexed_epoch) \in epochSent
  /\ \E c \in epochCalls : c.by = "T1"

\* ---- C4

\* T1 is suspended in checkpoint_sender.send on a full channel.
T1Suspended == pc1 = "send_checkpoint" /\ Len(qCkpt) = CHECKPOINT_QUEUE_LIMIT

\* T2 is inside a persist_checkpoint call that has not returned.
StoreBlocked == pc2 = "persist"

\* Checkpoints assembled by T1 in a run that started on the empty store.
Assembled == IF pc1 \in ({"send_checkpoint"} \cup PostSend) THEN cursor + 1 ELSE cursor

\* Assembled checkpoints that persist_checkpoint has not committed yet.
Outstanding == Assembled - Cardinality(ckptTable)

\* C4 as stated: with persist_checkpoint not returning, T1 suspends with exactly
\* CHECKPOINT_QUEUE_LIMIT + 1 = 11 assembled checkpoints outstanding.
C4_Original ==
  (T1Suspended /\ StoreBlocked) => Outstanding = CHECKPOINT_QUEUE_LIMIT + 1

\* C4 amended: with persist_checkpoint not returning, T1 suspends with exactly
\* CHECKPOINT_QUEUE_LIMIT + 2 = 12 assembled checkpoints outstanding: k held by
\* T2 in the store call, k+1..k+10 in the channel and k+11 offered by T1; T1
\* never gets further ahead, and it takes no step (no get_checkpoint call)
\* until the store call returns.
C4_Backpressure ==
  [][/\ ~skip => Outstanding <= CHECKPOINT_QUEUE_LIMIT + 2
     /\ (T1Suspended /\ StoreBlocked)
          => /\ Outstanding = CHECKPOINT_QUEUE_LIMIT + 2
             /\ cursor = Unwrap(item2).sequence_number + CHECKPOINT_QUEUE_LIMIT + 1
             /\ \A i \in 1..Len(qCkpt) :
                  qCkpt[i].sequence_number = Unwrap(item2).sequence_number + i
             /\ pc2' = "persist" => UNCHANGED <<pc1, cursor, getCalls, qCkpt>>]_vars

\* C4 witness: the store call for checkpoint 0 has not returned, checkpoints
\* 1..10 are queued, T1 offers 11 and the node has a further checkpoint.
C4_Witness ==
  /\ T1Suspended
  /\ StoreBlocked
  /\ Unwrap(item2).sequence_number = 0
  /\ cursor = CHECKPOINT_QUEUE_LIMIT + 1
  /\ cursor < tip

\* ---- C5

\* A checkpoint that T2 had dequeued and not yet committed when the process
\* crashed is never behind T1: the next cursor derivation, the running cursor or
\* the channel still covers it.
NotLost ==
  \A k \in owed :
    \/ pc1 \in {"start", "failed"} /\ LatestCheckpointSequenceNumber < k
    \/ pc1 \in {"download", "fetch", "send_checkpoint"} /\ cursor <= k
    \/ pc1 \in PostSend /\ cursor < k
    \/ \E i \in 1..Len(qCkpt) : qCkpt[i].sequence_number = k

\* C5. At-least-once: a checkpoint that T2 had dequeued and not yet committed
\* when the process crashed is not lost: after the restart T1 derives a cursor
\* that still covers it, and it is presented to persist_checkpoint again.
C5_AtLeastOnce ==
  /\ []NotLost
  /\ \A k \in 0..MaxSeq : (k \in owed) ~> (k \notin owed)

\* C5 witness: a crash caught checkpoint 1 dequeued and uncommitted; the
\* restarted T1 derived cursor 1 from the store, downloaded and indexed it again
\* and it is back in the channel, about to be received by T2.
C5_Witness ==
  /\ owed = {1}
  /\ lastFromDb = 0
  /\ qCkpt = <<[sequence_number |-> 1]>>
  /\ pc2 = "recv"
  /\ ~skip

\* ---- C9

\* C9. Epoch commit stage: a dequeued record with last_epoch is handed to
\* persist_epoch, kept and retried until the call succeeds; a record without
\* last_epoch is dropped with no store call.
C9_EpochCommit ==
  [][/\ (pc3 = "recv" /\ Len(qEpoch') = Len(qEpoch) - 1)
          => LET rec == Head(qEpoch) IN
             IF IsSome(rec.last_epoch)
             THEN /\ pc3' = "persist"
                  /\ item3' = Some(rec)
                  /\ [by |-> "T3", rec |-> rec] \in epochCalls'
                  /\ epochTable' = epochTable
             ELSE /\ pc3' = "recv"
                  /\ item3' = None
                  /\ UNCHANGED <<epochCalls, epochTable>>
     /\ pc3 = "persist"
          => /\ Len(qEpoch') >= Len(qEpoch)
             /\ \/ pc3' = "persist" /\ item3' = item3 /\ epochTable' = epochTable
                \/ /\ pc3' = "recv"
                   /\ epochTable' = epochTable \cup {Unwrap(item3).new_epoch.epoch}]_vars

\* C9 witness: a record without last_epoch was sent and dequeued with no store
\* call, and persist_epoch has failed and been called again for another record.
C9_Witness ==
  /\ \E g \in epochSent :
       /\ ~IsSome(g.last_epoch)
       /\ \A i \in 1..Len(qEpoch) : qEpoch[i] # g
       /\ \A c \in epochCalls : c.rec # g
       /\ g.new_epoch.epoch \notin epochTable
  /\ pc3 = "persist"
  /\ retried3

\* ---- C11

\* C11. skip_db_commit: when skip_db_commit is true T2 never calls
\* persist_checkpoint (it never holds an item and the checkpoints table stays
\* empty), every item it dequeues is dropped, and the channel keeps draining: T1
\* downloads, indexes and sends every checkpoint the node has, more than the
\* channel can hold.
C11_SkipDbCommit ==
  /\ [](skip => pc2 = "recv" /\ item2 = None /\ ckptTable = {})
  /\ [][skip /\ Len(qCkpt') < Len(qCkpt)
          => qCkpt' = Tail(qCkpt) /\ UNCHANGED <<storeVars, t2Vars>>]_vars
  /\ (skip => <>(lastSent = tip /\ cursor = tip + 1 /\ qCkpt = <<>>))

\* C11 witness: with skip_db_commit T1 has sent more checkpoints than the channel
\* holds, all of them were dequeued and none was committed.
C11_Witness ==
  /\ skip
  /\ lastSent > CHECKPOINT_QUEUE_LIMIT
  /\ qCkpt = <<>>
  /\ ckptTable = {}

\* ---- C12

\* One step of a bounded FIFO channel: nothing, one item taken from the head, or
\* one item added at the tail while there was room.
ChannelStep(q, r, limit) ==
  \/ r = q
  \/ q # <<>> /\ r = Tail(q)
  \/ Len(q) < limit /\ Len(r) = Len(q) + 1 /\ SubSeq(r, 1, Len(q)) = q

\* C12. Bounded queues: Q_ckpt never holds more than CHECKPOINT_QUEUE_LIMIT items
\* and Q_epoch never more than EPOCH_QUEUE_LIMIT; no step drops or overwrites a
\* queued item, and while the queue T1 is sending on is full T1 stays where it is.
C12_BoundedQueues ==
  /\ [](Len(qCkpt) <= CHECKPOINT_QUEUE_LIMIT /\ Len(qEpoch) <= EPOCH_QUEUE_LIMIT)
  /\ [][/\ ChannelStep(qCkpt, qCkpt', CHECKPOINT_QUEUE_LIMIT)
        /\ ChannelStep(qEpoch, qEpoch', EPOCH_QUEUE_LIMIT)
        /\ (pc1 = "send_checkpoint" /\ Len(qCkpt) = CHECKPOINT_QUEUE_LIMIT)
             => UNCHANGED t1Vars
        /\ (pc1 = "send_epoch" /\ Len(qEpoch) = EPOCH_QUEUE_LIMIT)
             => UNCHANGED t1Vars]_vars

\* C12 witness: Q_epoch is full, T3 is inside persist_epoch and T1 is suspended
\* in epoch_sender.send with a further record.
C12_Witness ==
  /\ Len(qEpoch) = EPOCH_QUEUE_LIMIT
  /\ pc1 = "send_epoch"
  /\ pc3 = "persist"
  /\ Unwrap(Indexed.indexed_epoch) \notin epochSent

\* ---- C13

\* C13. Download and indexing failures bubble: a step that takes T1 out of the
\* fetch-and-index stage of checkpoint k either succeeds (T1 goes on to send k),
\* is a process crash, or makes the body return the error: nothing is sent on
\* either channel, persist_epoch is not called, the event handler is not reached
\* and the cursor is not advanced. The failed body is only ever started again,
\* by the supervisor (which sends and persists nothing) or after a process crash,
\* and the started body takes its cursor from the store.
C13_FailuresBubble ==
  [][/\ (pc1 = "fetch" /\ pc1' # "fetch")
          => \/ pc1' = "send_checkpoint" /\ cursor' = cursor
             \/ pc1' = "start" /\ qCkpt' = <<>> /\ faults' = faults + 1
             \/ /\ pc1' = "failed"
                /\ UNCHANGED <<cursor, qCkpt, qEpoch, lastSent, runSent, epochSent,
                               epochCalls, storeVars>>
     /\ (pc1 = "failed" /\ pc1' # "failed")
          => /\ pc1' = "start"
             /\ faults' = faults
                  => UNCHANGED <<qCkpt, qEpoch, lastSent, runSent, epochSent, epochCalls>>
     /\ (pc1 = "start" /\ pc1' = "download")
          => cursor' = LatestCheckpointSequenceNumber + 1]_vars

\* C13 witness: the body has returned an error after get_checkpoint(1) succeeded
\* and before checkpoint 1 was sent.
C13_Witness ==
  /\ pc1 = "failed"
  /\ cursor = 1
  /\ 1 \in getCalls
  /\ lastSent = 0
  /\ ~waited

\* ---- C14

\* C14. Epoch-branch exclusivity: in every epoch record index_checkpoint
\* produces, last_epoch is absent exactly when the checkpoint has epoch 0 and
\* sequence number 0, whether or not it carries end_of_epoch_data; in every other
\* record last_epoch and new_epoch are both present.
C14_EpochBranchExclusivity ==
  (fnIn.fn = "index_checkpoint" /\ IsSome(fnOut.result.indexed_epoch)) =>
    LET checkpoint == fnIn.data.checkpoint
        rec == Unwrap(fnOut.result.indexed_epoch)
    IN /\ ~IsSome(rec.last_epoch)
            <=> (checkpoint.epoch = 0 /\ checkpoint.sequence_number = 0)
       /\ DOMAIN rec.new_epoch = {"epoch", "first_checkpoint_id"}

\* C14 witness: the genesis checkpoint carrying end_of_epoch_data was indexed and
\* its record has no last_epoch.
C14_Witness ==
  /\ fnIn.fn = "index_checkpoint"
  /\ fnIn.data.checkpoint.sequence_number = 0
  /\ IsSome(fnIn.data.checkpoint.end_of_epoch_data)
  /\ IsSome(fnOut.result.indexed_epoch)
  /\ ~IsSome(Unwrap(fnOut.result.indexed_epoch).last_epoch)

\* ---- C15

\* The checkpoint is the genesis checkpoint or the last one of its epoch.
HasEpochRecord(checkpoint) ==
  \/ checkpoint.epoch = 0 /\ checkpoint.sequence_number = 0
  \/ IsSome(checkpoint.end_of_epoch_data)

\* C15. Epoch record presence: index_checkpoint returns an epoch record exactly
\* for the genesis checkpoint and for checkpoints carrying end_of_epoch_data; for a
\* mid-epoch checkpoint T1 goes from the checkpoint send straight to the event
\* handler, so no persist_epoch call and no Q_epoch item stems from it.
C15_EpochRecordPresence ==
  /\ \A s \in 0..tip :
       IsSome(IndexCheckpoint(CheckpointData(s)).indexed_epoch)
         <=> HasEpochRecord(Envelope(s))
  /\ pc1 \in {"call_persist_epoch", "persist_epoch", "send_epoch"}
       => HasEpochRecord(Envelope(cursor))
  /\ \A rec \in epochSent \cup {c.rec : c \in epochCalls} :
       \E s \in 0..tip :
         /\ HasEpochRecord(Envelope(s))
         /\ rec = Unwrap(IndexCheckpoint(CheckpointData(s)).indexed_epoch)

\* C15 witness: T1 has sent a mid-epoch checkpoint and is at the event handler
\* with no epoch record.
C15_Witness ==
  /\ pc1 = "events"
  /\ ~HasEpochRecord(Envelope(cursor))
  /\ lastSent = cursor
  /\ ~IsSome(Indexed.indexed_epoch)
  /\ epochSent # {}

\* ---- C16

\* index_checkpoint was called on a non-genesis checkpoint that carries
\* end_of_epoch_data.
BoundaryIndexed ==
  /\ fnIn.fn = "index_checkpoint"
  /\ IsSome(fnIn.data.checkpoint.end_of_epoch_data)
  /\ ~(fnIn.data.checkpoint.epoch = 0 /\ fnIn.data.checkpoint.sequence_number = 0)

\* C16 as stated: the record of a boundary checkpoint with sequence number N and
\* checkpoint epoch e has last_epoch.epoch = e - 1 and new_epoch.epoch = e.
C16_Original ==
  BoundaryIndexed =>
    LET checkpoint == fnIn.data.checkpoint
        rec == Unwrap(fnOut.result.indexed_epoch)
        last_epoch == Unwrap(rec.last_epoch)
    IN /\ last_epoch.epoch = checkpoint.epoch - 1
       /\ last_epoch.last_checkpoint_id = Some(checkpoint.sequence_number)
       /\ last_epoch.epoch_end_timestamp = Some(checkpoint.timestamp_ms)
       /\ rec.new_epoch.epoch = checkpoint.epoch
       /\ rec.new_epoch.first_checkpoint_id = checkpoint.sequence_number + 1

\* C16. Epoch boundary record: for a non-genesis checkpoint with sequence number N
\* that carries end_of_epoch_data, the record has last_epoch.last_checkpoint_id = N,
\* last_epoch.epoch_end_timestamp = the checkpoint's timestamp_ms,
\* new_epoch.first_checkpoint_id = N + 1, and its epoch numbers come from the
\* system state found in the checkpoint's data, not from the checkpoint's epoch
\* field: new_epoch.epoch = system_state.epoch, last_epoch.epoch = that minus 1.
C16_EpochBoundaryRecord ==
  BoundaryIndexed =>
    LET checkpoint == fnIn.data.checkpoint
        rec == Unwrap(fnOut.result.indexed_epoch)
        last_epoch == Unwrap(rec.last_epoch)
    IN /\ last_epoch.epoch = fnIn.data.system_state_epoch - 1
       /\ last_epoch.last_checkpoint_id = Some(checkpoint.sequence_number)
       /\ last_epoch.epoch_end_timestamp = Some(checkpoint.timestamp_ms)
       /\ rec.new_epoch.epoch = fnIn.data.system_state_epoch
       /\ rec.new_epoch.first_checkpoint_id = checkpoint.sequence_number + 1

\* C16 witness: a boundary checkpoint of epoch e whose data holds the system state
\* of epoch e + 1 was indexed; the record opens epoch e + 1.
C16_Witness ==
  /\ BoundaryIndexed
  /\ fnIn.data.checkpoint.epoch = 2
  /\ fnIn.data.system_state_epoch = 3
  /\ Unwrap(fnOut.result.indexed_epoch).new_epoch.epoch = 3
  /\ Unwrap(Unwrap(fnOut.result.indexed_epoch).last_epoch).epoch = 2

\* ---- C17

\* C17. Next-epoch committee alignment: in every boundary record
\* next_epoch_committee and next_epoch_committee_stake are as long as the
\* envelope's next_epoch_committee list, entry i of each comes from pair i of that
\* list, and entry i of one is null exactly when entry i of the other is.
C17_CommitteeAlignment ==
  BoundaryIndexed =>
    LET committee ==
          Unwrap(fnIn.data.checkpoint.end_of_epoch_data).next_epoch_committee
        last_epoch == Unwrap(Unwrap(fnOut.result.indexed_epoch).last_epoch)
        names == last_epoch.next_epoch_committee
        stakes == last_epoch.next_epoch_committee_stake
    IN /\ Len(names) = Len(committee)
       /\ Len(stakes) = Len(committee)
       /\ \A i \in 1..Len(committee) :
            /\ names[i] = Some(committee[i][1].pubkey)
            /\ stakes[i] = Some(committee[i][2])
            /\ IsSome(names[i]) <=> IsSome(stakes[i])

\* C17 witness: a boundary checkpoint with two committee members, one of stake 0,
\* was indexed into two names and two stakes.
C17_Witness ==
  /\ BoundaryIndexed
  /\ Len(Unwrap(fnIn.data.checkpoint.end_of_epoch_data).next_epoch_committee) = 2
  /\ Unwrap(fnIn.data.checkpoint.end_of_epoch_data).next_epoch_committee[1][2] = 0
  /\ Unwrap(fnIn.data.checkpoint.end_of_epoch_data).next_epoch_committee[2][2] = 5
  /\ Len(Unwrap(Unwrap(fnOut.result.indexed_epoch).last_epoch).next_epoch_committee_stake) = 2

\* ---- C18

\* download_checkpoint_data has returned Ok(data).
Downloaded == fnIn.fn = "download_checkpoint_data" /\ fnOut.result.ok

\* The (id, version, status) triples of a list of object changes.
ChangeTriples(changes) ==
  {<<changes[k].object_id, changes[k].version, changes[k].status>> :
     k \in 1..Len(changes)}

\* The (id, version, status) triples of a changed_objects list.
FetchedTriples(changed_objects) ==
  {<<changed_objects[k][2].object_id, changed_objects[k][2].version,
     changed_objects[k][1]>> : k \in 1..Len(changed_objects)}

\* C18. Fan-out completeness: whenever download_checkpoint_data returns
\* successfully, changed_objects has exactly one entry for every (id, version,
\* status) that get_object_changes extracts from the transactions' effects, with
\* that status, and no other entry: its length is the number of extracted changes
\* whatever the number of responses each RPC call returned.
C18_FanOutCompleteness ==
  Downloaded =>
    LET data == fnOut.result.value
        changes == FlatMapObjectChanges(data.transactions)
    IN /\ FetchedTriples(data.changed_objects) = ChangeTriples(changes)
       /\ Len(data.changed_objects) = Cardinality(ChangeTriples(changes))
       /\ Len(data.changed_objects) = Len(changes)

\* ---- C19

\* The calls made for a list of n items: ceil(n / MULTI_GET_CHUNK_SIZE) of them,
\* none above MULTI_GET_CHUNK_SIZE requests, all but the last with exactly that
\* many, the last with the rest.
ChunkedCalls(calls, n) ==
  /\ Len(calls) = NumChunks(n)
  /\ \A i \in 1..Len(calls) :
       /\ 1 <= calls[i] /\ calls[i] <= MULTI_GET_CHUNK_SIZE
       /\ i < Len(calls) => calls[i] = MULTI_GET_CHUNK_SIZE
  /\ Len(calls) > 0
       => calls[Len(calls)] = n - (Len(calls) - 1) * MULTI_GET_CHUNK_SIZE

\* The ids of a list of object changes or of fetched objects go up.
Ascending(ids) == \A k \in 1..(Len(ids) - 1) : ids[k] < ids[k + 1]

\* C19. Chunked fetch: the n transaction digests and the n object changes of a
\* checkpoint are each fetched with exactly ceil(n / MULTI_GET_CHUNK_SIZE) RPC
\* calls of at most MULTI_GET_CHUNK_SIZE requests, all but the last of exactly
\* that size; the results are concatenated in chunk order; and when any chunk
\* fails the fetch fails as a whole, with no partial result.
C19_ChunkedFetch ==
  fnIn.fn = "download_checkpoint_data" =>
    LET node == fnIn.node
        changes == FlatMapObjectChanges(node)
        tx_failed == \E i \in DOMAIN fnIn.tx_answers : fnIn.tx_answers[i] = "err"
        object_failed == \E i \in DOMAIN fnIn.object_answers :
                            fnIn.object_answers[i] \in {"err", "not_found"}
        shortened == \E i \in DOMAIN fnIn.object_answers :
                        fnIn.object_answers[i] = "short"
    IN /\ ChunkedCalls(fnOut.tx_calls, Len(node))
       /\ ~tx_failed => ChunkedCalls(fnOut.object_calls, Len(changes))
       /\ (tx_failed \/ object_failed) <=> fnOut.result = Err
       /\ fnOut.result.ok =>
            LET data == fnOut.result.value
                fetched == [k \in 1..Len(data.changed_objects) |->
                              data.changed_objects[k][2].object_id]
                wanted == [k \in 1..Len(changes) |-> changes[k].object_id]
            IN /\ data.transactions = node
               /\ ~shortened => fetched = wanted
               /\ Ascending(wanted) => Ascending(fetched)

\* C19 witness: 1,300 object changes were fetched with calls of 500, 500 and 300
\* requests and gave 1,300 changed objects.
C19_Witness ==
  /\ Downloaded
  /\ fnOut.object_calls = <<500, 500, 300>>
  /\ Len(fnOut.result.value.changed_objects) = 1300
  /\ fnOut.result.value.changed_objects[1300][2].object_id = 1300

\* ---- C20

IdsOf(refs) == [k \in 1..Len(refs) |-> refs[k].object_id]

Elements(list) == {list[k] : k \in 1..Len(list)}

Occurrences(list, x) == Cardinality({k \in 1..Len(list) : list[k] = x})

\* Two lists hold the same multiset of elements.
SameMultiset(a, b) ==
  /\ Len(a) = Len(b)
  /\ IF Cardinality(Elements(a)) = Len(a) /\ Cardinality(Elements(b)) = Len(b)
     THEN Elements(a) = Elements(b)
     ELSE \A x \in Elements(a) \cup Elements(b) : Occurrences(a, x) = Occurrences(b, x)

\* The ids one transaction's effects touch, list by list.
TouchedIds(effects) ==
  IdsOf(effects.created) \o IdsOf(effects.mutated) \o IdsOf(effects.unwrapped)
    \o IdsOf(effects.deleted) \o IdsOf(effects.wrapped)
    \o IdsOf(effects.unwrapped_then_deleted)

ChangedIds == Concat([i \in 1..Len(fnOut.objects_changes) |->
                        IdsOf(fnOut.objects_changes[i].changed_objects)])

DeletedIds == Concat([i \in 1..Len(fnOut.objects_changes) |->
                        IdsOf(fnOut.objects_changes[i].deleted_objects)])

Complete(data) ==
  Len(data.changed_objects) = Len(FlatMapObjectChanges(data.transactions))

TaggedRun(out, from, refs, status) ==
  \A k \in 1..Len(refs) :
    out[from + k] = [object_id |-> refs[k].object_id,
                     version   |-> refs[k].version,
                     status    |-> status]

\* C21. Object change extraction: get_object_changes returns the created
\* references tagged Created, then the mutated ones tagged Mutated, then the
\* unwrapped ones tagged Unwrapped, and get_deleted_db_objects the deleted ones
\* tagged Deleted, then the wrapped ones tagged Wrapped, then the
\* unwrapped-then-deleted ones tagged UnwrappedThenDeleted; each list keeps its
\* order and nothing is added or left out.
C21_ObjectChangeExtraction ==
  fnIn.fn = "get_object_changes" =>
    LET e == fnIn.effects IN
    /\ Len(fnOut.changed) = Len(e.created) + Len(e.mutated) + Len(e.unwrapped)
    /\ TaggedRun(fnOut.changed, 0, e.created, "Created")
    /\ TaggedRun(fnOut.changed, Len(e.created), e.mutated, "Mutated")
    /\ TaggedRun(fnOut.changed, Len(e.created) + Len(e.mutated), e.unwrapped,
                 "Unwrapped")
    /\ Len(fnOut.deleted) =
         Len(e.deleted) + Len(e.wrapped) + Len(e.unwrapped_then_deleted)
    /\ TaggedRun(fnOut.deleted, 0, e.deleted, "Deleted")
    /\ TaggedRun(fnOut.deleted, Len(e.deleted), e.wrapped, "Wrapped")
    /\ TaggedRun(fnOut.deleted, Len(e.deleted) + Len(e.wrapped),
                 e.unwrapped_then_deleted, "UnwrappedThenDeleted")

\* C21 witness: effects that created objects 3 and 1, in that order, and mutated
\* object 2 gave the changes 3, 1, 2.
C21_Witness ==
  /\ fnIn.fn = "get_object_changes"
  /\ IdsOf(fnIn.effects.created) = <<3, 1>>
  /\ IdsOf(fnIn.effects.mutated) = <<2>>
  /\ IdsOf(fnOut.changed) = <<3, 1, 2>>
  /\ fnOut.deleted = <<>>

\* ---- C22

\* The changed objects of the downloaded data that transaction `digest` wrote
\* last, in the order of the data, as database rows.
ChangedBy(data, digest) ==
  LET mine(e) == e[2].previous_transaction = Some(digest)
      group == SelectSeq(data.changed_objects, mine)
  IN [k \in 1..Len(group) |->
        [object_id |-> group[k][2].object_id,
         version   |-> group[k][2].version,
         status    |-> group[k][1]]]

\* C22. Per-transaction object grouping: index_checkpoint emits one
\* TransactionObjectChanges per transaction, in the order of the transactions;
\* the changed list of a transaction is made of the changed_objects entries whose
\* previous_transaction is its digest, in their order, and its deleted list is
\* get_deleted_db_objects of its effects.
C22_PerTransactionGrouping ==
  Downloaded =>
    LET data == fnOut.result.value IN
    /\ Len(fnOut.objects_changes) = Len(data.transactions)
    /\ \A i \in 1..Len(data.transactions) :
         LET tx == data.transactions[i] IN
         /\ fnOut.objects_changes[i].changed_objects = ChangedBy(data, tx.digest)
         /\ fnOut.objects_changes[i].deleted_objects =
              get_deleted_db_objects(tx.effects)

\* C22 witness: of two transactions the first created an object and the second
\* deleted it; the first has the object in its changed list and no deleted
\* object, the second has no changed object and the object in its deleted list.
C22_Witness ==
  /\ Downloaded
  /\ Len(fnOut.objects_changes) = 2
  /\ IdsOf(fnOut.objects_changes[1].changed_objects) = <<1>>
  /\ fnOut.objects_changes[1].changed_objects[1].status = "Created"
  /\ fnOut.objects_changes[1].deleted_objects = <<>>
  /\ fnOut.objects_changes[2].changed_objects = <<>>
  /\ IdsOf(fnOut.objects_changes[2].deleted_objects) = <<1>>

\* ---- C23

\* The ids of the changed objects whose content is a package.
PackageIds ==
  {fnIn.changed_objects[k][2].object_id :
     k \in {j \in 1..Len(fnIn.changed_objects) :
              Unwrap(fnIn.changed_objects[j][2].bcs).variant = "Package"}}

\* The (transaction, created reference) pairs whose object id is that of a
\* changed package.
PackageHits ==
  {h \in (1..Len(fnIn.transactions)) \X (1..MaxRefs) :
     /\ h[2] <= Len(fnIn.transactions[h[1]].effects.created)
     /\ fnIn.transactions[h[1]].effects.created[h[2]].object_id \in PackageIds}

\* The place of a pair among the pairs, in transaction order and then in the
\* order of the created references.
HitRank(h) ==
  Cardinality({g \in PackageHits : g[1] < h[1] \/ (g[1] = h[1] /\ g[2] <= h[2])})

\* The content of the changed object a pair refers to.
HitPackage(h) ==
  LET id == fnIn.transactions[h[1]].effects.created[h[2]].object_id
      k == CHOOSE j \in 1..Len(fnIn.changed_objects) :
             fnIn.changed_objects[j][2].object_id = id
  IN Unwrap(fnIn.changed_objects[k][2].bcs).payload

\* C23. Package indexing: index_packages emits one Package row for each
\* (transaction, created object reference) pair whose object id is the id of a
\* changed object that is a package, made of the transaction's sender and the
\* package, in transaction order; a created object that is not a package gives
\* no row, and one failing row conversion fails the whole call.
C23_PackageIndexing ==
  fnIn.fn = "index_packages" =>
    IF \E h \in PackageHits : ~HitPackage(h).convertible
    THEN ~fnOut.result.ok
    ELSE /\ fnOut.result.ok
         /\ Len(fnOut.result.value) = Cardinality(PackageHits)
         /\ \A h \in PackageHits :
              fnOut.result.value[HitRank(h)] =
                [sender  |-> fnIn.transactions[h[1]].transaction.data.sender,
                 package |-> HitPackage(h)]

\* C23 witness: the first transaction created a Move object, and the second one
\* created two packages and mutated nothing; the two rows are the second
\* transaction's.
C23_Witness ==
  /\ fnIn.fn = "index_packages"
  /\ Len(fnIn.transactions) = 2
  /\ Len(fnIn.transactions[1].effects.created) = 1
  /\ Len(fnIn.transactions[2].effects.created) = 2
  /\ fnOut.result.ok
  /\ Len(fnOut.result.value) = 2
  /\ \A k \in 1..2 : fnOut.result.value[k].sender = [address |-> 2]

\* C23 witness of the failure: a package whose conversion fails, created next
\* to one whose conversion succeeds, failed the call.
C23_WitnessFailure ==
  /\ fnIn.fn = "index_packages"
  /\ \E h \in PackageHits : HitPackage(h).convertible
  /\ \E h \in PackageHits : ~HitPackage(h).convertible
  /\ ~fnOut.result.ok

\* ---- C24

\* The boundary checkpoint whose epoch record T3 is persisting.
BoundaryOfItem3 == Unwrap(Unwrap(Unwrap(item3).last_epoch).last_checkpoint_id)

\* C24. Epoch/checkpoint race: the commit of a boundary checkpoint by T2 and the
\* commit of its epoch record by T3 are not ordered. Neither call waits for the
\* other: a persist_epoch T3 has called can succeed whether or not the boundary
\* checkpoint is committed, and a persist_checkpoint T2 has called can succeed
\* whether or not the epoch record is; both orders are reached (C24_Witness,
\* C24_CheckpointFirst).
C24_EpochCheckpointRace ==
  /\ pc3 = "persist" => ENABLED T3PersistOk
  /\ pc2 = "persist" => ENABLED T2PersistOk

\* C24 witness, epoch first: without any restart, the epoch record closed by
\* boundary checkpoint k is persisted while T2 is still calling
\* persist_checkpoint for k.
C24_Witness ==
  /\ faults = 0
  /\ pc2 = "persist"
  /\ Unwrap(item2).sequence_number > 0
  /\ IsSome(Envelope(Unwrap(item2).sequence_number).end_of_epoch_data)
  /\ Unwrap(item2).sequence_number \notin ckptTable
  /\ SystemStateEpoch(Envelope(Unwrap(item2).sequence_number)) \in epochTable

\* C24, checkpoint first: without any restart, boundary checkpoint k is committed
\* while T3 is still calling persist_epoch for the record k closes.
C24_CheckpointFirst ==
  /\ faults = 0
  /\ pc3 = "persist"
  /\ BoundaryOfItem3 > 0
  /\ BoundaryOfItem3 \in ckptTable
  /\ Unwrap(item3).new_epoch.epoch \notin epochTable

\* ---- C25

\* A successful persist_epoch of the record T3 holds.
EpochCommitStep == pc3 = "persist" /\ pc3' = "recv"

\* C25. Epoch commit order: T3 persists the non-genesis epoch records in the
\* order T1 sent them, so that of two persisted records the one with the smaller
\* new_epoch.epoch is persisted first: when persist_epoch succeeds for a record,
\* no record of a later epoch has been persisted before.
C25_EpochCommitOrder ==
  [][EpochCommitStep =>
       \A e \in epochTable : e <= Unwrap(item3).new_epoch.epoch]_vars

\* ---- C26

\* T1 is about to call process_events for the transactions of checkpoint
\* `cursor`: the checkpoint has been sent, and its epoch record, if it has one,
\* has been persisted inline (genesis) or sent on the epoch channel.
EventsAfterSend ==
  pc1 = "events" =>
    /\ lastSent = cursor
    /\ IsSome(Indexed.indexed_epoch) =>
         LET epoch == Unwrap(Indexed.indexed_epoch) IN
         IF IsSome(epoch.last_epoch) THEN epoch \in epochSent
         ELSE epoch.new_epoch.epoch \in epochTable

\* The cursor advances only as the process_events calls of its checkpoint have
\* all returned Ok.
CursorAfterEvents ==
  (pc1 # "start" /\ cursor' # cursor) =>
    pc1 = "events" /\ cursor' = cursor + 1 /\ cursor \in eventsDone'

\* get_checkpoint(cursor) is called.
GetStep == pc1 = "download" /\ pc1' \in {"download", "fetch"} /\ cursor \in getCalls'

\* C26. Event handler placement: process_events is called for the transactions
\* of checkpoint k after k has been sent and its epoch record persisted inline or
\* sent, and before the cursor advances, so that get_checkpoint(k + 1) is never
\* called before the process_events calls for k have all returned Ok.
C26_EventHandlerPlacement ==
  /\ []EventsAfterSend
  /\ [][CursorAfterEvents]_vars
  /\ [][GetStep /\ cursor > 0 => cursor - 1 \in eventsDone]_vars

\* The placement inside one run of the T1 body, which the code keeps.
C26_PlacementInOneRun == []EventsAfterSend /\ [][CursorAfterEvents]_vars

\* ---- C27

\* C27. Supervised progress: a T1 body that returned an error is started again,
\* and with every task scheduled fairly and the node, the indexing, the event
\* handler and the store failing finitely often, every checkpoint the node has,
\* from the initial cursor on, is eventually persisted (skip_db_commit false).
C27_SupervisedProgress ==
  /\ (pc1 = "failed") ~> (pc1 = "start")
  /\ \A k \in 0..MaxSeq : <>(k \in ckptTable)

\* C27 witness: the T1 body has returned an error and been restarted, and every
\* checkpoint of the node is persisted.
C27_Witness ==
  /\ faults > 0
  /\ pc1 \notin {"failed", "start"}
  /\ ckptTable = 0..tip

\* ---- C28

\* The call left the gas coin and the object as they were and gave no effects.
NotExecuted ==
  /\ ~fnOut.result.response.ok
  /\ fnOut.result.gas_object =
       [id |-> "gas", owner |-> "sender", version |-> 1,
        balance |-> fnIn.gas_balance]
  /\ fnOut.result.object =
       [id |-> "object", owner |-> "sender", version |-> 1, balance |-> 0]

C28_WitnessTooLow ==
  /\ fnIn.fn = "execute_transfer"
  /\ fnIn.gas_balance = fnIn.table.max_budget
  /\ fnIn.gas_budget = fnIn.table.min_budget - 1
  /\ ~fnIn.run_confirm
  /\ ~fnOut.result.response.ok
  /\ fnOut.result.response.error.kind = "GasBudgetTooLow"

\* ---- C29

\* The transaction was handled, executed, and failed with InsufficientGas.
OutOfGas ==
  /\ fnIn.fn = "execute_transfer"
  /\ fnIn.run_confirm
  /\ fnOut.result.response.ok
  /\ fnOut.result.response.value.status = "Executed"
  /\ fnOut.result.response.value.effects.status = "InsufficientGas"

C31_GapFreeCommits == ckptTable = 0..SetMax(ckptTable)

\* C31 witness: after a restart of the T1 body the channel holds a checkpoint
\* that is already committed, and a second checkpoint has been committed.
C31_Witness ==
  /\ faults > 0
  /\ Cardinality(ckptTable) >= 2
  /\ \E i \in 1..Len(qCkpt) : qCkpt[i].sequence_number \in ckptTable

\* ---- C32

\* C32. Genesis epoch is not lost: once checkpoint 0 is persisted, the genesis
\* epoch record (new_epoch.epoch = 0) has been or is eventually persisted, also
\* when the inline persist_epoch call of T1 fails.
C32_GenesisEpochNotLost == (0 \in ckptTable) ~> (0 \in epochTable)

\* The genesis checkpoint is committed, the genesis epoch record is not, and the
\* T1 body is past checkpoint 0 or about to start again from the store.
C32_GenesisEpochLost ==
  /\ 0 \in ckptTable
  /\ 0 \notin epochTable
  /\ cursor > 0 \/ pc1 \in {"start", "failed"}

\* Once lost, the genesis epoch record stays lost, however far the node is ahead.
C32_LostForGood == [][C32_GenesisEpochLost => C32_GenesisEpochLost']_vars

\* ---- C33

\* C33. Event delivery completeness: the transactions of every checkpoint that
\* is persisted are eventually passed to process_events with a successful result,
\* also when process_events has failed for the checkpoint after it was enqueued.
C33_EventDelivery == \A k \in 0..MaxSeq : (k \in ckptTable) ~> (k \in eventsDone)

\* Checkpoint k is committed, its events were never handled, and the T1 body is
\* past k or about to start again from the store.
C33_EventsLost(k) ==
  /\ k \in ckptTable
  /\ k \notin eventsDone
  /\ cursor > k \/ pc1 \in {"start", "failed"}

\* Once lost, the events of a checkpoint stay lost, however far the node is ahead.
C33_LostForGood ==
  [][\A k \in 0..MaxSeq : C33_EventsLost(k) => C33_EventsLost(k)']_vars

\* ---- C34

\* The epoch step of the checkpoint at the cursor is done: there is no record, or
\* the genesis record is persisted, or the boundary record is sent.
EpochStepDone ==
  IsSome(Indexed.indexed_epoch) =>
    LET epoch == Unwrap(Indexed.indexed_epoch) IN
    IF IsSome(epoch.last_epoch) THEN epoch \in epochSent
    ELSE /\ [by |-> "T1", rec |-> epoch] \in epochCalls
         /\ epoch.new_epoch.epoch \in epochTable

\* The cursor advances inside a run of the body: by one, from the event handler,
\* the checkpoint at the cursor being the last one sent and its epoch step done.
CursorStep ==
  (pc1 # "start" /\ cursor' # cursor) =>
    /\ pc1 = "events" /\ pc1' = "download"
    /\ cursor' = cursor + 1
    /\ runSent # <<>> /\ runSent[Len(runSent)] = cursor
    /\ EpochStepDone

\* C34. Consecutive cursor within one run: the checkpoints a run of the T1 body
\* has sent are c, c + 1, c + 2, ... with c the store's latest sequence number
\* plus one at the start of the run, none skipped and none sent twice; the
\* cursor is the next number to send, and it advances by exactly one only after
\* the send, the epoch step and the process_events calls of its checkpoint.
C34_ConsecutiveCursor ==
  /\ [](runSent = [i \in 1..Len(runSent) |-> lastFromDb + i])
  /\ [](pc1 \in {"download", "fetch", "send_checkpoint"}
          => cursor = lastFromDb + 1 + Len(runSent))
  /\ [](pc1 \in PostSend => cursor = lastFromDb + Len(runSent))
  /\ [][CursorStep]_vars

\* C34 witness: a restarted run of the body, resumed from a non-empty store, has
\* sent two checkpoints.
C34_Witness == faults > 0 /\ lastFromDb >= 0 /\ Len(runSent) >= 2 /\ pc1 = "events"

\* ---- C35

\* T1 offers a boundary record to the full epoch channel while T3 holds a record
\* in persist_epoch.
EpochStall ==
  pc1 = "send_epoch" /\ pc3 = "persist" /\ Len(qEpoch) = EPOCH_QUEUE_LIMIT

\* C35. Epoch-queue backpressure stalls ingestion: with persist_epoch never
\* returning in T3, T1 ends up blocked in the Q_epoch send, offering the fourth
\* outstanding boundary record (one held by T3, EPOCH_QUEUE_LIMIT queued, one
\* offered) and not before; from then on it stays there, calls get_checkpoint no
\* more and enqueues no checkpoint, whatever the room in Q_ckpt, while T2 goes on
\* receiving and committing what is queued.
C35_EpochQueueStall ==
  /\ <>[]EpochStall
  /\ [](EpochStall => /\ Cardinality(epochSent) = EPOCH_QUEUE_LIMIT + 1
                      /\ Unwrap(Indexed.indexed_epoch) \notin epochSent
                      /\ ~ENABLED T1SendEpoch)
  /\ []((pc1 = "send_epoch" /\ ~EpochStall) => ENABLED (T1SendEpoch \/ T3Recv))
  /\ [][EpochStall => /\ EpochStall'
                      /\ UNCHANGED <<pc1, cursor, getCalls, lastSent, runSent>>
                      /\ Len(qCkpt') <= Len(qCkpt)]_vars
  /\ []((EpochStall /\ pc2 = "recv" /\ qCkpt # <<>>) => ENABLED T2Recv)
  /\ []((EpochStall /\ pc2 = "persist") => ENABLED T2PersistOk)

\* C35 witness: T1 is stalled on the epoch channel with room in Q_ckpt, and T2
\* has committed a checkpoint sent after the first boundary record.
C35_Witness ==
  /\ EpochStall
  /\ Len(qCkpt) < CHECKPOINT_QUEUE_LIMIT
  /\ ~skip
  /\ cursor - 1 \in ckptTable

\* ---- C36

\* The T1 body starts: it reads the store and sets its cursor.
BodyStart == pc1 = "start" /\ pc1' = "download"

\* T3 takes a record from the epoch channel.
EpochRecvStep == pc3 = "recv" /\ Len(qEpoch') = Len(qEpoch) - 1

\* persist_epoch returns Ok to T3.
EpochPersistStep == pc3 = "persist" /\ pc3' = "recv"

\* C36. skip_db_commit leaves epoch commits untouched: with the flag set no
\* checkpoint is persisted, so every start of the T1 body reads -1 and begins at
\* the same cursor; T1 still calls persist_epoch inline for the genesis record
\* before it goes on, and T3 still calls persist_epoch for every boundary record
\* it receives and persists it.
C36_SkipLeavesEpochCommits ==
  /\ [](skip => ckptTable = {})
  /\ [][(skip /\ BodyStart) => (lastFromDb' = -1 /\ cursor' = 0)]_vars
  /\ []((skip /\ pc1 = "events" /\ cursor = 0)
          => /\ [by |-> "T1", rec |-> Unwrap(Indexed.indexed_epoch)] \in epochCalls
             /\ 0 \in epochTable)
  /\ [][(skip /\ EpochRecvStep)
          => /\ IsSome(Head(qEpoch).last_epoch)
             /\ pc3' = "persist" /\ item3' = Some(Head(qEpoch))
             /\ [by |-> "T3", rec |-> Head(qEpoch)] \in epochCalls']_vars
  /\ [][(skip /\ EpochPersistStep)
          => epochTable' = epochTable \cup {Unwrap(item3).new_epoch.epoch}]_vars

\* C36 witness: with the flag set, a body restarted after a later checkpoint's
\* boundary record was sent has started from cursor 0 again and sent checkpoint
\* 0, and the genesis record and that boundary record are persisted.
C36_Witness ==
  /\ skip
  /\ faults > 0
  /\ lastFromDb = -1 /\ cursor = 0 /\ pc1 \in PostSend /\ runSent = <<0>>
  /\ 0 \in epochTable
  /\ \E c \in epochCalls : c.by = "T3" /\ c.rec.new_epoch.epoch \in epochTable

\* ---- C37

\* The task that uses each endpoint.
LockOwner ==
  [endpoint \in Endpoints |->
     CASE endpoint \in {"checkpoint_sender", "epoch_sender"} -> "T1"
       [] endpoint = "checkpoint_receiver" -> "T2"
       [] endpoint = "epoch_receiver" -> "T3"]

\* T1 is suspended in a send on a full channel, holding the sender's guard.
SuspendedInCheckpointSend ==
  /\ pc1 = "send_checkpoint" /\ held["checkpoint_sender"] = "T1"
  /\ Len(qCkpt) = CHECKPOINT_QUEUE_LIMIT

SuspendedInEpochSend ==
  /\ pc1 = "send_epoch" /\ held["epoch_sender"] = "T1"
  /\ Len(qEpoch) = EPOCH_QUEUE_LIMIT

\* C37. No deadlock from the endpoint mutexes: each of the four guards is taken
\* by one task only (the sender guards by T1, the checkpoint receiver guard by T2,
\* the epoch receiver guard by T3) and no task holds two at once; while T1 is
\* suspended in a send on a full channel with the sender guard held, the task
\* that receives from that channel can take its step; and in no state are the
\* three tasks all unable to step.
C37_NoDeadlock ==
  /\ \A endpoint \in Endpoints : held[endpoint] \in {"none", LockOwner[endpoint]}
  /\ \A task \in {"T1", "T2", "T3"} :
       Cardinality({endpoint \in Endpoints : held[endpoint] = task}) <= 1
  /\ SuspendedInCheckpointSend => ENABLED (T2LockCheckpointReceiver \/ T2RecvHeld \/ T2PersistOk)
  /\ SuspendedInEpochSend => ENABLED (T3LockEpochReceiver \/ T3RecvHeld \/ T3PersistOk)
  /\ ENABLED T1NextLocks \/ ENABLED T2NextLocks \/ ENABLED T3NextLocks

\* C37 witness: T1 is suspended in the send on the full checkpoint channel with
\* the sender guard held while T2 holds the receiver guard and is about to
\* receive, and T3 waits on the empty epoch channel with its guard held.
C37_Witness ==
  /\ SuspendedInCheckpointSend
  /\ pc2 = "recv" /\ held["checkpoint_receiver"] = "T2"
  /\ pc3 = "recv" /\ held["epoch_receiver"] = "T3" /\ qEpoch = <<>>

====
